---- MODULE Spec2Model ----
(***************************************************************************)
(* Test-execution and retry orchestration engine of the structured-output  *)
(* benchmark: the suite orchestrator (runFullTestSuite / runModelTests),   *)
(* the four scenario runners, the attempt executor with its exponential    *)
(* backoff, and the start handler of the run API (POST /api/run).          *)
(***************************************************************************)
EXTENDS Integers, Sequences, FiniteSets, TLC

\* ------------------------------------------------------------------------
\* Bounds of the model
\* ------------------------------------------------------------------------
MaxModels == 2
MaxScenarios == 2
MaxRuns == 2
MaxMaxRetries == 2
\* models x scenarios x runsPerScenario x (maxRetries + 1) of a suite call
\* of more than one run
MaxSlots == 2
\* concurrent start requests
MaxRequests == 3
\* run lists handed to the summary aggregator: one-shot runs of a list,
\* sequential runs of a list, attempts of a one-shot run or of a step,
\* attempts of a list in total
MaxSumRuns == 4
MaxSumSeqRuns == 2
MaxSumAttempts == 4
MaxSumSlots == 7
\* progress events handed to onProgress in the specification of the log
MaxLogEvents == 104
\* attempts of a suite call whose model calls are counted
MaxCallAttempts == 3

\* ------------------------------------------------------------------------
\* Program constants
\* ------------------------------------------------------------------------
BACKOFF_MAX_RETRIES == 4

BACKOFF_BASE_MS == 5000

\* logEntries.length > 100, logEntries.slice(-100)
LogLimit == 100

\* ------------------------------------------------------------------------
\* Model registry
\* ------------------------------------------------------------------------
ModelPool == {"openai-gpt4o", "groq-kimi-k2", "unknown-model"}

\* models.ts: supportsStrictMode of the registered models
supportsStrictMode(modelId) == modelId = "openai-gpt4o"

\* getModelWithKeys(modelId, apiKeys) returns a model (TRUE) or null (FALSE)
getModelWithKeys(modelId) == modelId \in {"openai-gpt4o", "groq-kimi-k2"}

\* requested scenario numbers; 5 is not a scenario
ScenarioPool == 1..5

isSequentialScenario(scenario) == scenario = 3 \/ scenario = 4

isStrictScenario(scenario) == scenario = 2 \/ scenario = 4

\* ------------------------------------------------------------------------
\* Helpers
\* ------------------------------------------------------------------------
SeqsUpTo(S, n) == UNION {[1..k -> S] : k \in 1..n}

Range(f) == {f[i] : i \in DOMAIN f}

Last(s) == s[Len(s)]

\* the configurations of a suite call: a call of a single run with any
\* number of retries, a call of several runs within MaxSlots, or a call
\* that names one scenario twice, of one model and one run with one retry
Configs ==
  {c \in [modelIds : SeqsUpTo(ModelPool, MaxModels),
          scenarios : SeqsUpTo(ScenarioPool, MaxScenarios),
          runsPerScenario : 1..MaxRuns,
          maxRetries : 0..MaxMaxRetries] :
     \/ Len(c.modelIds) * Len(c.scenarios) * c.runsPerScenario = 1
     \/ Len(c.modelIds) * Len(c.scenarios) * c.runsPerScenario
          * (c.maxRetries + 1) <= MaxSlots
     \/ /\ Len(c.modelIds) = 1
        /\ Len(c.scenarios) = 2
        /\ c.scenarios[1] = c.scenarios[2]
        /\ c.runsPerScenario = 1
        /\ c.maxRetries = 1}

\* ------------------------------------------------------------------------
\* State
\* ------------------------------------------------------------------------
VARIABLES
  config,          \* arguments of runFullTestSuite
  pc,              \* position of the suite call
  mi,              \* index into modelIds of runFullTestSuite's loop
  si,              \* index into scenarios of runModelTests' loop
  runNum,          \* runNum of the scenario runner
  stepNum,         \* step of a sequential run (0 in a one-shot run)
  attempt,         \* attempt of the attempt loop
  backoff,         \* attempt of withExponentialBackoff
  slept,           \* the delays withExponentialBackoff has slept in this call
  attempts,        \* attempts of the run (one-shot) or of the step (sequential)
  messages,        \* messages of the attempt (one-shot), stepNMessages (sequential)
  steps,           \* steps of the sequential run
  runs,            \* runs of the scenario runner
  modelResults,    \* results of runModelTests
  results,         \* results of runFullTestSuite
  error,           \* the error a rejected suite call carries
  lastEvent,       \* the last TestProgress handed to onProgress
  lastRunComplete, \* the last RunCompleteEvent handed to onRunComplete
  started,         \* per step of the current run: attempts whose model call was started
  lastMerge,       \* outcome of the merge validation of the current run
  testRun,         \* activeRun.run, the TestRunFile under construction
  progress,        \* activeRun.progress, the live projection, with lastModel
                   \* and lastScenario of runTestsInBackground
  received,        \* number of progress events handed to onProgress
  calls,           \* <<number of model calls of the suite call>> where the
                   \* specification counts them, <<>> where it does not
  activeRuns,      \* the progress table: run id -> status
  requests,        \* the POST requests: request -> position of its handler
  timers,          \* run ids with a pending setTimeout(delete)
  sumRuns,         \* calculateScenarioSummary, called on its own: runs
  sumSequential,   \* ... isSequential
  sumUsage,        \* ... whether the failed attempts of runs carry token counts
  sumResult        \* ... <<the summary returned>>, <<>> before the call

suiteVars == <<config, pc, mi, si, runNum, stepNum, attempt, backoff, slept,
               attempts, messages, steps, runs, modelResults, results, error,
               lastEvent, lastRunComplete, started, lastMerge, testRun, progress,
               received, calls>>

postVars == <<activeRuns, requests, timers>>

pureVars == <<sumRuns, sumSequential, sumUsage, sumResult>>

vars == <<suiteVars, postVars, pureVars>>

\* ------------------------------------------------------------------------
\* Current coordinate of the suite call
\* ------------------------------------------------------------------------
ModelId == config.modelIds[mi]

Scenario == config.scenarios[si]

MaxAttempts == config.maxRetries + 1

EmptyMap == [x \in {} |-> 0]

\* ------------------------------------------------------------------------
\* Progress events (TestProgress, RunCompleteEvent)
\* m and s are the positions of modelId in modelIds and of scenario in
\* scenarios; stepNumber is 0 where the runner leaves it undefined.
\* ------------------------------------------------------------------------
NoEvent ==
  [status |-> "none", m |-> 0, modelId |-> "", s |-> 0, scenario |-> 0,
   runNumber |-> 0, stepNumber |-> 0, attemptNumber |-> 0, errors |-> <<>>]

\* errors: logEntry.validationResult.errors of an after-event, by error code
TestProgress(status, errors) ==
  [status |-> status, m |-> mi, modelId |-> ModelId, s |-> si,
   scenario |-> Scenario, runNumber |-> runNum, stepNumber |-> stepNum,
   attemptNumber |-> attempt, errors |-> errors]

NoRunResult ==
  [runNumber |-> 0, success |-> FALSE, attempts |-> <<>>, steps |-> <<>>,
   totalDurationMs |-> 0, finalResponse |-> "null"]

NoRunComplete ==
  [m |-> 0, modelId |-> "", s |-> 0, scenario |-> 0, runNumber |-> 0,
   runResult |-> NoRunResult, isSequential |-> FALSE]

RunCompleteEvent(runResult) ==
  [m |-> mi, modelId |-> ModelId, s |-> si, scenario |-> Scenario,
   runNumber |-> runNum, runResult |-> runResult,
   isSequential |-> isSequentialScenario(Scenario)]

\* ------------------------------------------------------------------------
\* Attempt executor
\* What one model call can do: answer with valid output ("ok"), with output
\* the schema rejects ("schema"), with output that is no JSON ("syntax"),
\* fail in transport ("transport") or with a rate-limit signal ("ratelimit").
\* ------------------------------------------------------------------------
Outcomes == {"ok", "schema", "syntax", "transport", "ratelimit"}

isRateLimitError(outcome) == outcome = "ratelimit"

\* mutant of BackoffRetries: one retry more than the ceiling
BackoffRetriesOneMore(outcome, b) ==
  isRateLimitError(outcome) /\ b < BACKOFF_MAX_RETRIES + 1

\* withExponentialBackoff: the call is made again after a rate-limit signal
\* while attempt < maxRetries; every other error, and the last one, is thrown
BackoffRetries(outcome, b) == isRateLimitError(outcome) /\ b < BACKOFF_MAX_RETRIES

\* mutant of BackoffDelay: the delay grows by the base, it does not double
BackoffDelayLinear(b) == BACKOFF_BASE_MS * (b + 1)

\* delayMs = BACKOFF_BASE_MS * Math.pow(2, attempt)
BackoffDelay(b) == BACKOFF_BASE_MS * 2^b

AttemptSuccess ==
  [threw |-> FALSE, success |-> TRUE, errors |-> <<>>, tokens |-> TRUE]

\* mutant of AttemptFailure: the failure is returned without an error entry
AttemptFailureNoErrors(code, tokens) ==
  [threw |-> FALSE, success |-> FALSE, errors |-> <<>>, tokens |-> tokens]

AttemptFailure(code, tokens) ==
  [threw |-> FALSE, success |-> FALSE, errors |-> <<code>>, tokens |-> tokens]

AttemptThrew ==
  [threw |-> TRUE, success |-> FALSE, errors |-> <<>>, tokens |-> FALSE]

runNonStrictAttempt(outcome) ==
  CASE outcome = "ok" -> AttemptSuccess
    [] outcome = "schema" -> AttemptFailure("invalid_type", TRUE)
    [] outcome = "syntax" -> AttemptFailure("invalid_json", TRUE)
    [] OTHER -> AttemptThrew

runStrictAttempt(outcome) ==
  CASE outcome = "ok" -> AttemptSuccess
    [] outcome = "schema" -> AttemptFailure("invalid_type", FALSE)
    [] OTHER -> AttemptFailure("api_error", FALSE)

runAttempt(scenario, outcome) ==
  IF isStrictScenario(scenario) THEN runStrictAttempt(outcome)
  ELSE runNonStrictAttempt(outcome)

\* ------------------------------------------------------------------------
\* Message lists. The content of a message is what it is made from: the
\* raw response of attempt n of the loop is <<"raw", n>>, the retry prompt
\* made from it <<"retry", n>>, the parsed result of step k <<"result", k>>.
\* ------------------------------------------------------------------------
Message(role, content) == [role |-> role, content |-> content]

\* the three messages every one-shot attempt starts from
OneShotBase ==
  <<Message("system", <<"systemPrompt">>),
    Message("user", <<"conversation">>),
    Message("user", <<"oneShotPrompt">>)>>

\* the assistant message and the retry prompt made from a failed attempt
RetryContext(raw) ==
  <<Message("assistant", raw), Message("user", <<"retry", raw[2]>>)>>

\* messages of attempt a of a one-shot run: the base, and from the second
\* attempt on the retry context of the last attempt
OneShotMessages(a, as) ==
  IF a > 1 /\ Len(as) > 0
  THEN OneShotBase \o RetryContext(Last(as).rawResponse)
  ELSE OneShotBase

\* stepNMessages as initialised: the results of the steps before step k
\* come between the conversation and the prompt of the step
StepBase(k) ==
  <<Message("system", <<"systemPrompt">>), Message("user", <<"conversation">>)>>
    \o [j \in 1..(k - 1) |-> Message("assistant", <<"result", j>>)]
    \o <<Message("user", <<"stepPrompt", k>>)>>

\* validationErrors: result.errors || [], kept as the number of its entries
\* (the entries themselves are in the after-event of the attempt);
\* result.tokens?.input and .output: undefined (<<>>) without usage data, and
\* a nominal count (2 in, 1 out) with it; prompt: the messages sent
AttemptResult(result) ==
  [attemptNumber |-> attempt, success |-> result.success,
   prompt |-> messages, rawResponse |-> <<"raw", attempt>>,
   inputTokens |-> IF result.tokens THEN <<2>> ELSE <<>>,
   outputTokens |-> IF result.tokens THEN <<1>> ELSE <<>>,
   parsedResponse |-> IF result.success THEN "data" ELSE "null",
   validationErrors |-> Len(result.errors)]

\* ------------------------------------------------------------------------
\* Scenario summary aggregator (storage.ts: calculateScenarioSummary)
\* A number that need not be whole (a rate, a mean) is the pair
\* <<numerator, denominator>> in lowest terms, so equal numbers are equal pairs.
\* ------------------------------------------------------------------------
RECURSIVE GCD(_, _)
GCD(a, b) == IF b = 0 THEN a ELSE GCD(b, a % b)

\* the result of 0 / 0
NaN == <<0, 0>>

\* n / d for n >= 0 and d >= 0 (n > 0 and d = 0 does not occur)
Ratio(n, d) ==
  IF d = 0 THEN NaN
  ELSE IF n = 0 THEN <<0, 1>>
  ELSE <<n \div GCD(n, d), d \div GCD(n, d)>>

\* mutant of MeanOrZero: the division is not guarded
MeanUnguarded(total, count) == Ratio(total, count)

\* count > 0 ? total / count : 0
MeanOrZero(total, count) == IF count = 0 THEN <<0, 1>> ELSE Ratio(total, count)

Whole(n) == <<n, 1>>

RatioLeq(a, b) == a[1] * b[2] <= b[1] * a[2]

\* an optional number: <<>> where the field is undefined; x || 0
OrZero(o) == IF o = <<>> THEN 0 ELSE o[1]

RECURSIVE SumOf(_)
SumOf(s) == IF s = <<>> THEN 0 ELSE Head(s) + SumOf(Tail(s))

RECURSIVE Flatten(_)
Flatten(ss) == IF ss = <<>> THEN <<>> ELSE Head(ss) \o Flatten(Tail(ss))

\* the attempts of a run: of all its steps when the run is sequential
RunAttempts(run, isSequential) ==
  IF isSequential
  THEN Flatten([k \in DOMAIN run.steps |-> run.steps[k].attempts])
  ELSE run.attempts

\* (inputTokens || 0) + (outputTokens || 0)
AttemptTokens(a) == OrZero(a.inputTokens) + OrZero(a.outputTokens)

RunTokens(run, isSequential) ==
  LET as == RunAttempts(run, isSequential)
  IN SumOf([i \in DOMAIN as |-> AttemptTokens(as[i])])

\* 0-based index of the successful attempt of an attempt list, -1 if none
SuccessIndex(as) ==
  IF \E i \in DOMAIN as : as[i].success
  THEN (CHOOSE i \in DOMAIN as :
          as[i].success /\ \A j \in DOMAIN as : as[j].success => i <= j) - 1
  ELSE -1

Max(S) == CHOOSE x \in S : \A y \in S : y <= x

\* mutant of StepsRetryDepth: the retries of the steps are added up
StepsRetryDepthSum(run) ==
  SumOf([k \in DOMAIN run.steps |-> SuccessIndex(run.steps[k].attempts)])

\* retry depth of a successful sequential run: the largest retry count of a step
StepsRetryDepth(run) ==
  Max({0} \cup {SuccessIndex(run.steps[k].attempts) : k \in DOMAIN run.steps})

\* mutant of RetryDepth: the success flag of the run is not consulted
RetryDepthOfAttempts(run, isSequential) ==
  IF isSequential THEN StepsRetryDepth(run) ELSE SuccessIndex(run.attempts)

\* the retry depth at which a run succeeded, -1 for a run with success=false
RetryDepth(run, isSequential) ==
  IF ~run.success THEN -1
  ELSE IF isSequential THEN StepsRetryDepth(run)
  ELSE SuccessIndex(run.attempts)

\* mutant of SucceededWithin: the depth is compared exactly
SucceededAt(run, isSequential, d) == RetryDepth(run, isSequential) = d

\* the run succeeded using no more than d retries
SucceededWithin(run, isSequential, d) ==
  RetryDepth(run, isSequential) # -1 /\ RetryDepth(run, isSequential) <= d

\* mutant of SuccessfulRuns: every run is taken for a successful one
SuccessfulRunsAll(rs) == DOMAIN rs

\* positions of the runs with success=true
SuccessfulRuns(rs) == {i \in DOMAIN rs : rs[i].success}

RECURSIVE SumOver(_, _)
\* sum of f[i] over the positions in S
SumOver(f, S) ==
  IF S = {} THEN 0
  ELSE LET i == CHOOSE x \in S : TRUE IN f[i] + SumOver(f, S \ {i})

ZeroSummary ==
  [successRate |-> Whole(0), firstAttemptSuccessRate |-> Whole(0),
   afterRetry1SuccessRate |-> Whole(0), afterRetry2SuccessRate |-> Whole(0),
   afterRetry3SuccessRate |-> Whole(0), averageDurationMs |-> Whole(0),
   averageAttempts |-> Whole(0), averageAttemptsPerSuccess |-> Whole(0),
   averageTokensPerSuccess |-> Whole(0), totalTokensUsed |-> 0]

\* mutant of TotalTokens: only the tokens of successful attempts are counted
TotalTokensOfSuccesses(rs, isSequential) ==
  SumOf([i \in DOMAIN rs |->
           LET as == RunAttempts(rs[i], isSequential)
           IN SumOf([j \in DOMAIN as |->
                       IF as[j].success THEN AttemptTokens(as[j]) ELSE 0])])

TotalTokens(rs, isSequential) ==
  SumOf([i \in DOMAIN rs |-> RunTokens(rs[i], isSequential)])

\* mutant of NoRuns: the empty list is not treated apart
NoRunsUnchecked(rs) == FALSE

\* if (runs.length === 0) return the all-zero summary
NoRuns(rs) == rs = <<>>

calculateScenarioSummary(rs, isSequential) ==
  IF NoRuns(rs) THEN ZeroSummary
  ELSE
    LET N == Len(rs)
        ok == SuccessfulRuns(rs)
        within(d) == Cardinality({i \in DOMAIN rs :
                                   SucceededWithin(rs[i], isSequential, d)})
        attemptCount == [i \in DOMAIN rs |-> Len(RunAttempts(rs[i], isSequential))]
        tokens == [i \in DOMAIN rs |-> RunTokens(rs[i], isSequential)]
        duration == [i \in DOMAIN rs |-> rs[i].totalDurationMs]
    IN [successRate |-> Ratio(100 * Cardinality(ok), N),
        firstAttemptSuccessRate |-> Ratio(100 * within(0), N),
        afterRetry1SuccessRate |-> Ratio(100 * within(1), N),
        afterRetry2SuccessRate |-> Ratio(100 * within(2), N),
        afterRetry3SuccessRate |-> Ratio(100 * within(3), N),
        averageDurationMs |-> Ratio(SumOf(duration), N),
        averageAttempts |-> Ratio(SumOf(attemptCount), N),
        averageAttemptsPerSuccess |->
          MeanOrZero(SumOver(attemptCount, ok), Cardinality(ok)),
        averageTokensPerSuccess |->
          MeanOrZero(SumOver(tokens, ok), Cardinality(ok)),
        totalTokensUsed |-> TotalTokens(rs, isSequential)]

\* ------------------------------------------------------------------------
\* The TestRunFile under construction (storage.ts: createTestRun,
\* updateRunSummary; route.ts: onRunComplete)
\* ------------------------------------------------------------------------
\* createTestRun(config): no results, the summary all zero
createTestRun ==
  [results |-> EmptyMap,
   summary |-> [totalTests |-> 0, passed |-> 0, failed |-> 0,
                successRate |-> Whole(0)]]

\* every RunResult of a result map, by model, scenario and position
AllRuns(res) ==
  UNION {UNION {{<<m, sc, i>> : i \in DOMAIN res[m][sc].runs} :
                  sc \in DOMAIN res[m]} :
         m \in DOMAIN res}

\* mutant of updateRunSummary: the summary is left as it was
updateRunSummaryStale(run) == run

\* updateRunSummary(testRun): the top-level summary recomputed from results
updateRunSummary(run) ==
  LET all == AllRuns(run.results)
      passed == Cardinality({x \in all :
                              run.results[x[1]][x[2]].runs[x[3]].success})
  IN [run EXCEPT !.summary =
        [totalTests |-> Cardinality(all), passed |-> passed,
         failed |-> Cardinality(all) - passed,
         successRate |-> MeanOrZero(100 * passed, Cardinality(all))]]

\* mutant of onRunComplete: the run is pushed, the summary is left as it was
onRunCompleteStale(run, event) ==
  LET byModel == IF event.modelId \in DOMAIN run.results
                 THEN run.results[event.modelId] ELSE EmptyMap
      entry == IF event.scenario \in DOMAIN byModel
               THEN byModel[event.scenario]
               ELSE [runs |-> <<>>, summary |-> ZeroSummary]
      newEntry == [entry EXCEPT !.runs = Append(entry.runs, event.runResult)]
  IN updateRunSummary(
       [run EXCEPT !.results =
          (event.modelId :> ((event.scenario :> newEntry) @@ byModel))
            @@ run.results])

\* onRunComplete of runTestsInBackground: the entry of the model and the
\* scenario is created if missing, the RunResult pushed, the summary of the
\* entry recomputed from its runs, and the top-level summary updated
onRunComplete(run, event) ==
  LET byModel == IF event.modelId \in DOMAIN run.results
                 THEN run.results[event.modelId] ELSE EmptyMap
      entry == IF event.scenario \in DOMAIN byModel
               THEN byModel[event.scenario]
               ELSE [runs |-> <<>>, summary |-> ZeroSummary]
      newRuns == Append(entry.runs, event.runResult)
      newEntry == [runs |-> newRuns,
                   summary |-> calculateScenarioSummary(newRuns,
                                                        event.isSequential)]
  IN updateRunSummary(
       [run EXCEPT !.results =
          (event.modelId :> ((event.scenario :> newEntry) @@ byModel))
            @@ run.results])

\* ------------------------------------------------------------------------
\* The live projection (route.ts: POST builds the grid of attempt cells,
\* onProgress of runTestsInBackground paints it). A cell list that a run does
\* not have (attempts of a sequential run, steps of a one-shot run) is <<>>.
\* ------------------------------------------------------------------------
\* Array(maxAttempts).fill(isSkipped ? 'skipped' : 'pending')
Cells(n, isSkipped) ==
  [i \in 1..n |-> IF isSkipped THEN "skipped" ELSE "pending"]

RunProgress(isSequential, isSkipped, maxAttempts) ==
  [attempts |-> IF isSequential THEN <<>> ELSE Cells(maxAttempts, isSkipped),
   steps |-> IF isSequential
             THEN [k \in 1..3 |-> [stepNumber |-> k,
                                   attempts |-> Cells(maxAttempts, isSkipped)]]
             ELSE <<>>,
   final |-> IF isSkipped THEN "skipped" ELSE "pending"]

\* mutant of IsSkipped: every strict scenario is marked skipped
IsSkippedAnyModel(modelId, scenario) == isStrictScenario(scenario)

\* isSkipped = isStrictScenario && !modelDef?.supportsStrictMode
IsSkipped(modelId, scenario) ==
  isStrictScenario(scenario) /\ ~supportsStrictMode(modelId)

ScenarioProgress(modelId, scenario, c) ==
  LET isSkipped == IsSkipped(modelId, scenario)
  IN [modelId |-> modelId, scenario |-> scenario,
      isSequential |-> isSequentialScenario(scenario),
      isSkipped |-> isSkipped,
      runs |-> [r \in 1..c.runsPerScenario |->
                 RunProgress(isSequentialScenario(scenario), isSkipped,
                             c.maxRetries + 1)],
      completedRuns |-> IF isSkipped THEN c.runsPerScenario ELSE 0,
      totalRuns |-> c.runsPerScenario]

\* scenariosProgress: one entry per model and scenario, models outermost
InitialProgress(c) ==
  LET S == Len(c.scenarios)
  IN [scenarios |->
        [p \in 1..(Len(c.modelIds) * S) |->
           ScenarioProgress(c.modelIds[((p - 1) \div S) + 1],
                            c.scenarios[((p - 1) % S) + 1], c)],
      totalScenarios |-> Len(c.modelIds) * S,
      completedScenarios |-> 0,
      maxAttempts |-> c.maxRetries + 1,
      logEntries |-> <<>>,
      lastModel |-> "",
      lastScenario |-> 0]

\* status 'retrying': the cell before becomes 'failed', the cell 'running'
CellsRetrying(cells, a) ==
  [i \in DOMAIN cells |->
     IF i = a THEN "running"
     ELSE IF a > 1 /\ i = a - 1 THEN "failed"
     ELSE cells[i]]

\* mutant of CellsSuccess: the cells after the success are left as they are
CellsSuccessOnly(cells, a) == [cells EXCEPT ![a] = "success"]

\* status 'success': the cell becomes 'success', the cells after it 'skipped'
CellsSuccess(cells, a) ==
  [i \in DOMAIN cells |->
     IF i = a THEN "success" ELSE IF i > a THEN "skipped" ELSE cells[i]]

\* mutant of LastSlot: every failure is taken for the last one
LastSlotAlways(a, maxAttempts) == TRUE

\* attemptIndex === maxAttempts - 1
LastSlot(a, maxAttempts) == a = maxAttempts

\* mutant of RunIndex: the first run is painted whatever the event's run
RunIndexFirst(e) == 1

\* runIndex = progress.runNumber - 1, as a position from 1
RunIndex(e) == e.runNumber

\* onProgress, the branch of a run with attempts (one-shot)
PaintOneShot(runData, e, maxAttempts) ==
  LET a == e.attemptNumber
  IN CASE e.status = "running" ->
            [runData EXCEPT !.attempts[a] = "running"]
       [] e.status = "retrying" ->
            [runData EXCEPT !.attempts = CellsRetrying(@, a)]
       [] e.status = "success" ->
            [runData EXCEPT !.attempts = CellsSuccess(@, a),
                            !.final = "success"]
       [] e.status = "failed" ->
            [runData EXCEPT !.attempts[a] = "failed",
                            !.final = IF LastSlot(a, maxAttempts)
                                      THEN "failed" ELSE @]
       [] OTHER -> runData

\* onProgress, the branch of a run with steps (sequential), k the step
PaintSequential(runData, e, k, maxAttempts) ==
  LET a == e.attemptNumber
      skipLater == [j \in DOMAIN runData.steps |->
                      IF j > k
                      THEN [runData.steps[j] EXCEPT !.attempts =
                              [i \in DOMAIN @ |-> "skipped"]]
                      ELSE IF j = k
                      THEN [runData.steps[j] EXCEPT !.attempts[a] = "failed"]
                      ELSE runData.steps[j]]
  IN CASE e.status = "running" ->
            [runData EXCEPT !.steps[k].attempts[a] = "running"]
       [] e.status = "retrying" ->
            [runData EXCEPT !.steps[k].attempts = CellsRetrying(@, a)]
       [] e.status = "success" ->
            [runData EXCEPT !.steps[k].attempts = CellsSuccess(@, a),
                            !.final = IF k = 3 THEN "success" ELSE @]
       [] e.status = "failed" ->
            IF LastSlot(a, maxAttempts)
            THEN [runData EXCEPT !.steps = skipLater, !.final = "failed"]
            ELSE [runData EXCEPT !.steps[k].attempts[a] = "failed"]
       [] OTHER -> runData

\* scenarioProgress.completedRuns++ : the event sets the final status
CompletesRun(e, isSequential, k, maxAttempts) ==
  \/ e.status = "success" /\ (isSequential => k = 3)
  \/ e.status = "failed" /\ LastSlot(e.attemptNumber, maxAttempts)

\* logEntry of a progress event: a request before the call, a response after
LogEntry(e) ==
  [type |-> IF e.status \in {"running", "retrying"} THEN "request" ELSE "response",
   modelId |-> e.modelId, scenario |-> e.scenario, runNumber |-> e.runNumber,
   stepNumber |-> e.stepNumber, attemptNumber |-> e.attemptNumber]

\* mutant of PushLogEntry: the newest entries are dropped
PushLogEntryKeepOldest(log, entry) ==
  IF Len(log) + 1 > LogLimit THEN log ELSE Append(log, entry)

\* logEntries.push(logEntry); if (length > 100) logEntries = slice(-100)
PushLogEntry(log, entry) ==
  LET pushed == Append(log, entry)
  IN IF Len(pushed) > LogLimit
     THEN SubSeq(pushed, Len(pushed) - LogLimit + 1, Len(pushed))
     ELSE pushed

\* scenarios.filter(s => s.completedRuns === s.totalRuns).length
CompletedScenarios(scenarios) ==
  Cardinality({p \in DOMAIN scenarios :
                 scenarios[p].completedRuns = scenarios[p].totalRuns})

\* the end of onProgress: completedScenarios is recounted when the event is
\* of another model or scenario than the event before
NoteScenario(prog, e) ==
  IF prog.lastModel # e.modelId \/ prog.lastScenario # e.scenario
  THEN [prog EXCEPT !.lastModel = e.modelId,
                    !.lastScenario = e.scenario,
                    !.completedScenarios = CompletedScenarios(prog.scenarios)]
  ELSE prog

\* onProgress(progress): the entry is the first one of the event's model and
\* scenario; an event without entry does nothing; the log entry is pushed;
\* an event without step returns after the log; the cells are painted if
\* the run exists
onProgress(prog, e) ==
  LET found == {p \in DOMAIN prog.scenarios :
                  /\ prog.scenarios[p].modelId = e.modelId
                  /\ prog.scenarios[p].scenario = e.scenario}
      p == CHOOSE x \in found : \A y \in found : x <= y
      entry == prog.scenarios[p]
      r == RunIndex(e)
      runData == entry.runs[r]
      isSequential == e.scenario = 3 \/ e.scenario = 4
      k == IF e.stepNumber # 0 THEN e.stepNumber ELSE 1
      painted == IF isSequential /\ runData.steps # <<>>
                 THEN PaintSequential(runData, e, k, prog.maxAttempts)
                 ELSE PaintOneShot(runData, e, prog.maxAttempts)
      completes == CompletesRun(e, isSequential /\ runData.steps # <<>>, k,
                                prog.maxAttempts)
      logged == [prog EXCEPT !.logEntries = PushLogEntry(@, LogEntry(e))]
  IN IF found = {} THEN prog
     ELSE IF r \notin DOMAIN entry.runs THEN NoteScenario(logged, e)
     ELSE IF isSequential /\ runData.steps # <<>> /\ k \notin DOMAIN runData.steps
     THEN logged
     ELSE IF ~(isSequential /\ runData.steps # <<>>) /\ runData.attempts = <<>>
     THEN NoteScenario(logged, e)
     ELSE NoteScenario(
            [logged EXCEPT !.scenarios[p] =
               [entry EXCEPT !.runs[r] = painted,
                             !.completedRuns = IF completes THEN @ + 1 ELSE @]],
            e)

\* ------------------------------------------------------------------------
\* Initial state: runFullTestSuite has been called with config
\* ------------------------------------------------------------------------
\* the model call counter steps where it is kept
Counted(c) == IF c = <<>> THEN c ELSE <<c[1] + 1>>

\* the state of a suite call that has just been made
SuiteCalled ==
  /\ pc = "suite"
  /\ mi = 1
  /\ si = 1
  /\ runNum = 1
  /\ stepNum = 0
  /\ attempt = 1
  /\ backoff = 0
  /\ attempts = <<>>
  /\ messages = <<>>
  /\ steps = <<>>
  /\ runs = <<>>
  /\ modelResults = EmptyMap
  /\ results = EmptyMap
  /\ error = "none"
  /\ lastEvent = NoEvent
  /\ lastRunComplete = NoRunComplete
  /\ started = [k \in 0..3 |-> 0]
  /\ lastMerge = "none"
  /\ testRun = createTestRun
  /\ slept = <<>>
  /\ progress = InitialProgress(config)
  /\ received = 0

InitSuite ==
  /\ config \in Configs
  /\ calls = <<>>
  /\ SuiteCalled

IdlePost ==
  /\ activeRuns = EmptyMap
  /\ requests = [r \in 1..MaxRequests |-> "idle"]
  /\ timers = {}

\* calculateScenarioSummary is not being called on its own
IdleSummary ==
  /\ sumRuns = <<>>
  /\ sumSequential = FALSE
  /\ sumUsage = TRUE
  /\ sumResult = <<>>

Init == InitSuite /\ IdlePost /\ IdleSummary

\* ------------------------------------------------------------------------
\* Scenario runners (runScenario1..4): the decisions of the loops
\* ------------------------------------------------------------------------
\* mutant of MoreAttempts: the loop bound off by one
MoreAttemptsOffByOne(a) == a <= MaxAttempts

\* for (attempt = 1; attempt <= config.maxRetries + 1; attempt++)
MoreAttempts(a) == a + 1 <= MaxAttempts

\* mutant of StepFailed: the throw after a failed step is missing
StepFailedIgnored(step) == FALSE

\* if (!stepNResult) throw new Error('Step N failed')
StepFailed(step) == ~step.success

\* mutant of MergeSuccess: success is set without validating the merge
MergeSuccessUnchecked(mergeOk) == TRUE

\* ResponseSchema.parse(merged); success = true
MergeSuccess(mergeOk) == mergeOk

\* mutant of CompleteRun: the run is pushed but onRunComplete is not called
CompleteRunSilent(success, runAttempts, runSteps, finalResponse) ==
  LET runResult == [runNumber |-> runNum, success |-> success,
                    attempts |-> runAttempts, steps |-> runSteps,
                    totalDurationMs |-> 1, finalResponse |-> finalResponse]
  IN /\ runs' = Append(runs, runResult)
     /\ lastRunComplete' = lastRunComplete
     /\ testRun' = testRun
     /\ runNum' = runNum + 1
     /\ attempts' = <<>>
     /\ messages' = <<>>
     /\ steps' = <<>>
     /\ stepNum' = 0
     /\ attempt' = 1
     /\ pc' = "run"

\* runs.push(runResult); onRunComplete(...); the next iteration of the run loop
CompleteRun(success, runAttempts, runSteps, finalResponse) ==
  LET runResult == [runNumber |-> runNum, success |-> success,
                    attempts |-> runAttempts, steps |-> runSteps,
                    totalDurationMs |-> 1, finalResponse |-> finalResponse]
  IN /\ runs' = Append(runs, runResult)
     /\ lastRunComplete' = RunCompleteEvent(runResult)
     /\ testRun' = onRunComplete(testRun, RunCompleteEvent(runResult))
     /\ runNum' = runNum + 1
     /\ attempts' = <<>>
     /\ messages' = <<>>
     /\ steps' = <<>>
     /\ stepNum' = 0
     /\ attempt' = 1
     /\ pc' = "run"

\* the attempt loop goes round: the failed attempt is kept for the retry; a
\* sequential runner appends its retry context to stepNMessages
RetryAttempt(newAttempts) ==
  /\ attempts' = newAttempts
  /\ messages' = IF isSequentialScenario(Scenario)
                 THEN messages \o RetryContext(Last(newAttempts).rawResponse)
                 ELSE messages
  /\ attempt' = attempt + 1
  /\ pc' = "attempt"
  /\ UNCHANGED <<steps, runs, runNum, stepNum, lastRunComplete, lastMerge,
                 testRun>>

\* mutant of NextStep: the next step reports under the number of the last one
NextStepSameNumber(newSteps) ==
  /\ steps' = newSteps
  /\ attempts' = <<>>
  /\ messages' = StepBase(stepNum + 1)
  /\ stepNum' = stepNum
  /\ attempt' = 1
  /\ pc' = "attempt"
  /\ UNCHANGED <<runs, runNum, lastRunComplete, lastMerge, testRun>>

\* steps.push(stepN) of a successful step 1 or 2: on to the next step
NextStep(newSteps) ==
  /\ steps' = newSteps
  /\ attempts' = <<>>
  /\ messages' = StepBase(stepNum + 1)
  /\ stepNum' = stepNum + 1
  /\ attempt' = 1
  /\ pc' = "attempt"
  /\ UNCHANGED <<runs, runNum, lastRunComplete, lastMerge, testRun>>

\* the end of an attempt loop of a one-shot run
EndOneShot(success, newAttempts) ==
  /\ CompleteRun(success, newAttempts, <<>>, IF success THEN "data" ELSE "null")
  /\ UNCHANGED lastMerge

\* the end of an attempt loop of a step: push the step, throw if it failed,
\* go on to the next step, or merge the three parts and validate the merge
EndStep(success, newAttempts, mergeOk) ==
  LET step == [stepNumber |-> stepNum, success |-> success,
               attempts |-> newAttempts]
      newSteps == Append(steps, step)
  IN IF StepFailed(step)
     THEN CompleteRun(FALSE, <<>>, newSteps, "null") /\ UNCHANGED lastMerge
     ELSE IF stepNum < 3
     THEN NextStep(newSteps)
     ELSE /\ lastMerge' = IF mergeOk THEN "ok" ELSE "failed"
          /\ CompleteRun(MergeSuccess(mergeOk), <<>>, newSteps,
                         IF mergeOk THEN "merged" ELSE "null")

\* ------------------------------------------------------------------------
\* Actions of the suite call
\* ------------------------------------------------------------------------
\* mutant of StartModel: the model is not checked for null
StartModelUnchecked ==
  /\ pc = "suite"
  /\ mi <= Len(config.modelIds)
  /\ modelResults' = EmptyMap
  /\ si' = 1
  /\ pc' = "scenario"
  /\ UNCHANGED <<config, mi, runNum, stepNum, attempt, backoff, attempts, steps,
                 runs, results, error, lastEvent, lastRunComplete, started,
                 lastMerge>>
  /\ UNCHANGED <<postVars, pureVars, testRun, messages, progress, received, calls, slept>>

\* runFullTestSuite: for (const modelId of modelIds) -> runModelTests(modelId)
StartModel ==
  /\ pc = "suite"
  /\ mi <= Len(config.modelIds)
  /\ IF getModelWithKeys(ModelId)
     THEN /\ modelResults' = EmptyMap
          /\ si' = 1
          /\ pc' = "scenario"
          /\ UNCHANGED error
     ELSE /\ pc' = "rejected"
          /\ error' = "Model not found or missing API key"
          /\ UNCHANGED <<modelResults, si>>
  /\ UNCHANGED <<config, mi, runNum, stepNum, attempt, backoff, attempts, steps,
                 runs, results, lastEvent, lastRunComplete, started, lastMerge>>
  /\ UNCHANGED <<postVars, pureVars, testRun, messages, progress, received, calls, slept>>

\* runFullTestSuite: return results
SuiteReturns ==
  /\ pc = "suite"
  /\ mi > Len(config.modelIds)
  /\ pc' = "returned"
  /\ UNCHANGED <<config, mi, si, runNum, stepNum, attempt, backoff, attempts,
                 steps, runs, modelResults, results, error, lastEvent,
                 lastRunComplete, started, lastMerge>>
  /\ UNCHANGED <<postVars, pureVars, testRun, messages, progress, received, calls, slept>>

\* mutant of SkipScenario: the capability flag is not consulted
SkipScenarioNever(modelId, scenario) == FALSE

\* if (isStrictScenario && !model.supportsStrictMode) continue
SkipScenario(modelId, scenario) ==
  isStrictScenario(scenario) /\ ~supportsStrictMode(modelId)

\* runModelTests: one iteration of for (const scenario of scenarios)
StartScenario ==
  /\ pc = "scenario"
  /\ si <= Len(config.scenarios)
  /\ IF SkipScenario(ModelId, Scenario)
     THEN /\ si' = si + 1
          /\ UNCHANGED <<pc, runs, runNum, error>>
     ELSE IF Scenario \in 1..4
     THEN /\ runs' = <<>>
          /\ runNum' = 1
          /\ pc' = "run"
          /\ UNCHANGED <<si, error>>
     ELSE /\ pc' = "rejected"
          /\ error' = "Invalid scenario"
          /\ UNCHANGED <<si, runs, runNum>>
  /\ UNCHANGED <<config, mi, stepNum, attempt, backoff, attempts, steps,
                 modelResults, results, lastEvent, lastRunComplete, started,
                 lastMerge>>
  /\ UNCHANGED <<postVars, pureVars, testRun, messages, progress, received, calls, slept>>

\* runModelTests: return results; runFullTestSuite: results[modelId] = ...
ModelReturns ==
  /\ pc = "scenario"
  /\ si > Len(config.scenarios)
  /\ results' = (ModelId :> modelResults) @@ results
  /\ mi' = mi + 1
  /\ pc' = "suite"
  /\ UNCHANGED <<config, si, runNum, stepNum, attempt, backoff, attempts, steps,
                 runs, modelResults, error, lastEvent, lastRunComplete, started,
                 lastMerge>>
  /\ UNCHANGED <<postVars, pureVars, testRun, messages, progress, received, calls, slept>>

\* scenario runner: one iteration of for (runNum = 1; runNum <= runsPerScenario; ...)
StartRun ==
  /\ pc = "run"
  /\ runNum <= config.runsPerScenario
  /\ attempts' = <<>>
  /\ steps' = <<>>
  /\ stepNum' = IF isSequentialScenario(Scenario) THEN 1 ELSE 0
  /\ attempt' = 1
  /\ started' = [k \in 0..3 |-> 0]
  /\ lastMerge' = "none"
  /\ messages' = IF isSequentialScenario(Scenario) THEN StepBase(1) ELSE <<>>
  /\ pc' = "attempt"
  /\ UNCHANGED <<config, mi, si, runNum, backoff, runs, modelResults, results,
                 error, lastEvent, lastRunComplete>>
  /\ UNCHANGED <<postVars, pureVars, testRun, progress, received, calls, slept>>

\* scenario runner: return runs; runModelTests: results[scenario] = {runs, summary}
ScenarioReturns ==
  /\ pc = "run"
  /\ runNum > config.runsPerScenario
  /\ modelResults' =
       (Scenario :> [runs |-> runs,
                     summary |-> calculateScenarioSummary(
                                   runs, isSequentialScenario(Scenario))])
       @@ modelResults
  /\ si' = si + 1
  /\ pc' = "scenario"
  /\ UNCHANGED <<config, mi, runNum, stepNum, attempt, backoff, attempts, steps,
                 runs, results, error, lastEvent, lastRunComplete, started,
                 lastMerge>>
  /\ UNCHANGED <<postVars, pureVars, testRun, messages, progress, received, calls, slept>>

\* top of the attempt loop: the before-event, then the model call is started
BeginAttempt ==
  /\ pc = "attempt"
  /\ lastEvent' = TestProgress(IF attempt = 1 THEN "running" ELSE "retrying", <<>>)
  /\ progress' = onProgress(progress, lastEvent')
  /\ received' = received + 1
  /\ calls' = Counted(calls)
  /\ slept' = <<>>
  /\ started' = [started EXCEPT ![stepNum] = @ + 1]
  /\ messages' = IF isSequentialScenario(Scenario) THEN messages
                 ELSE OneShotMessages(attempt, attempts)
  /\ backoff' = 0
  /\ pc' = "call"
  /\ UNCHANGED <<config, mi, si, runNum, stepNum, attempt, attempts, steps, runs,
                 modelResults, results, error, lastRunComplete, lastMerge>>
  /\ UNCHANGED <<postVars, pureVars, testRun>>

\* withExponentialBackoff: a rate-limit signal below the ceiling: sleep, call again
BackoffRetry ==
  /\ pc = "call"
  /\ \E outcome \in Outcomes : BackoffRetries(outcome, backoff)
  /\ slept' = Append(slept, BackoffDelay(backoff))
  /\ backoff' = backoff + 1
  /\ UNCHANGED <<config, pc, mi, si, runNum, stepNum, attempt, attempts, steps,
                 runs, modelResults, results, error, lastEvent, lastRunComplete,
                 started, lastMerge>>
  /\ calls' = Counted(calls)
  /\ UNCHANGED <<postVars, pureVars, testRun, messages, progress, received>>

\* the attempt executor returns a result: the attempt is recorded, the
\* after-event emitted, and the loops go on
AttemptReturnsOn(outcome, mergeOk) ==
  /\ pc = "call"
  /\ ~BackoffRetries(outcome, backoff)
  /\ LET result == runAttempt(Scenario, outcome)
         newAttempts == Append(attempts, AttemptResult(result))
     IN /\ ~result.threw
        /\ lastEvent' = TestProgress(IF result.success THEN "success" ELSE "failed",
                                   result.errors)
        /\ progress' = onProgress(progress, lastEvent')
        /\ received' = received + 1
        /\ IF ~result.success /\ MoreAttempts(attempt)
           THEN RetryAttempt(newAttempts)
           ELSE IF isSequentialScenario(Scenario)
           THEN EndStep(result.success, newAttempts, mergeOk)
           ELSE EndOneShot(result.success, newAttempts)
  /\ backoff' = 0
  /\ slept' = <<>>
  /\ UNCHANGED <<config, mi, si, modelResults, results, error, started, calls>>
  /\ UNCHANGED <<postVars, pureVars>>

AttemptReturns ==
  \E outcome \in Outcomes, mergeOk \in BOOLEAN : AttemptReturnsOn(outcome, mergeOk)

\* the attempt executor throws (non-strict mode only): a one-shot runner has
\* no handler, so the suite call rejects; a sequential runner catches it in
\* the run's catch block and records the run with the steps pushed so far
AttemptThrowsOn(outcome) ==
  /\ pc = "call"
  /\ ~BackoffRetries(outcome, backoff)
  /\ runAttempt(Scenario, outcome).threw
  /\ IF isSequentialScenario(Scenario)
     THEN /\ CompleteRun(FALSE, <<>>, steps, "null")
          /\ UNCHANGED error
     ELSE /\ pc' = "rejected"
          /\ error' = outcome
          /\ UNCHANGED <<runs, lastRunComplete, runNum, attempts, steps,
                         stepNum, attempt, testRun, messages>>
  /\ backoff' = 0
  /\ slept' = <<>>
  /\ UNCHANGED <<config, mi, si, modelResults, results, lastEvent, started,
                 lastMerge, progress, received, calls>>
  /\ UNCHANGED <<postVars, pureVars>>

AttemptThrows == \E outcome \in Outcomes : AttemptThrowsOn(outcome)

\* runTestsInBackground, after the suite call has returned: the result map
\* replaces the one built by onRunComplete, the top-level summary is
\* updated and the file saved; the status becomes 'complete', or 'error' if
\* saving throws
RunCompleted ==
  /\ pc = "returned"
  /\ testRun' = updateRunSummary([testRun EXCEPT !.results = results])
  /\ \E saved \in BOOLEAN :
       IF saved
       THEN /\ pc' = "complete"
            /\ progress' = [progress EXCEPT !.completedScenarios =
                                              progress.totalScenarios]
       ELSE /\ pc' = "error"
            /\ UNCHANGED progress
  /\ UNCHANGED <<config, mi, si, runNum, stepNum, attempt, backoff, attempts,
                 steps, runs, modelResults, results, error, lastEvent,
                 lastRunComplete, started, lastMerge, messages, received,
                 calls, slept>>
  /\ UNCHANGED <<postVars, pureVars>>

\* runTestsInBackground, catch: the suite call has rejected; the status
\* becomes 'error' and the file keeps what onRunComplete has put into it
RunErrored ==
  /\ pc = "rejected"
  /\ pc' = "error"
  /\ UNCHANGED <<config, mi, si, runNum, stepNum, attempt, backoff, attempts,
                 steps, runs, modelResults, results, error, lastEvent,
                 lastRunComplete, started, lastMerge, testRun, messages,
                 progress, received, calls, slept>>
  /\ UNCHANGED <<postVars, pureVars>>

Next ==
  \/ StartModel
  \/ SuiteReturns
  \/ StartScenario
  \/ ModelReturns
  \/ StartRun
  \/ ScenarioReturns
  \/ BeginAttempt
  \/ BackoffRetry
  \/ AttemptReturns
  \/ AttemptThrows
  \/ RunCompleted
  \/ RunErrored

Spec == Init /\ [][Next]_vars

\* ------------------------------------------------------------------------
\* The start handler of the run API: POST /api/run
\* A request is handled in two turns of the event loop: up to
\* await request.json(), and from there to the response. A started run is
\* entered in activeRuns under its own fresh id (here: the request's number).
\* ------------------------------------------------------------------------
Running == {id \in DOMAIN activeRuns : activeRuns[id] = "running"}

\* const runningRuns = ...filter(r => r.status === 'running');
\* if (runningRuns.length > 0) return 409
AlreadyRunning == Running # {}

\* POST, first turn: the single-run guard, then await request.json()
PostCheck(r) ==
  /\ requests[r] = "idle"
  /\ requests' = [requests EXCEPT ![r] = IF AlreadyRunning THEN "409" ELSE "awaitBody"]
  /\ UNCHANGED <<activeRuns, timers>>
  /\ UNCHANGED <<suiteVars, pureVars>>

\* POST, second turn: the body is there; validate it, enter the run as
\* 'running' in activeRuns, start runTestsInBackground, answer with the run id
PostStart(r) ==
  /\ requests[r] = "awaitBody"
  /\ \E body \in {"valid", "invalid", "malformed"} :
       CASE body = "valid" ->
              /\ activeRuns' = (r :> "running") @@ activeRuns
              /\ requests' = [requests EXCEPT ![r] = "200"]
         [] body = "invalid" ->
              /\ requests' = [requests EXCEPT ![r] = "400"]
              /\ UNCHANGED activeRuns
         [] OTHER ->
              /\ requests' = [requests EXCEPT ![r] = "500"]
              /\ UNCHANGED activeRuns
  /\ UNCHANGED timers
  /\ UNCHANGED <<suiteVars, pureVars>>

\* mutant of BackgroundFinish: the removal of the entry is not scheduled
BackgroundFinishNoTimer(id) ==
  /\ id \in Running
  /\ \E status \in {"complete", "error"} :
       activeRuns' = [activeRuns EXCEPT ![id] = status]
  /\ UNCHANGED timers
  /\ UNCHANGED requests
  /\ UNCHANGED <<suiteVars, pureVars>>

\* runTestsInBackground: the suite call of run id is over; the entry becomes
\* 'complete' (try) or 'error' (catch) and its removal is scheduled
BackgroundFinish(id) ==
  /\ id \in Running
  /\ \E status \in {"complete", "error"} :
       activeRuns' = [activeRuns EXCEPT ![id] = status]
  /\ timers' = timers \cup {id}
  /\ UNCHANGED requests
  /\ UNCHANGED <<suiteVars, pureVars>>

\* setTimeout(() => activeRuns.delete(runId), 60000)
TimerFires(id) ==
  /\ id \in timers
  /\ activeRuns' = [x \in DOMAIN activeRuns \ {id} |-> activeRuns[x]]
  /\ timers' = timers \ {id}
  /\ UNCHANGED requests
  /\ UNCHANGED <<suiteVars, pureVars>>

\* no suite call is modelled in the specification of the start handler
IdleSuite ==
  /\ config = [modelIds |-> <<"openai-gpt4o">>, scenarios |-> <<1>>,
               runsPerScenario |-> 1, maxRetries |-> 0]
  /\ pc = "idle"
  /\ mi = 1
  /\ si = 1
  /\ runNum = 1
  /\ stepNum = 0
  /\ attempt = 1
  /\ backoff = 0
  /\ attempts = <<>>
  /\ messages = <<>>
  /\ steps = <<>>
  /\ runs = <<>>
  /\ modelResults = EmptyMap
  /\ results = EmptyMap
  /\ error = "none"
  /\ lastEvent = NoEvent
  /\ lastRunComplete = NoRunComplete
  /\ started = [k \in 0..3 |-> 0]
  /\ lastMerge = "none"
  /\ testRun = createTestRun
  /\ slept = <<>>
  /\ progress = [scenarios |-> <<>>, totalScenarios |-> 0,
                 completedScenarios |-> 0, maxAttempts |-> 1,
                 logEntries |-> <<>>, lastModel |-> "", lastScenario |-> 0]
  /\ received = 0
  /\ calls = <<>>

InitPost == IdleSuite /\ IdlePost /\ IdleSummary

NextPost ==
  \/ \E r \in 1..MaxRequests : PostCheck(r)
  \/ \E r \in 1..MaxRequests : PostStart(r)
  \/ \E id \in 1..MaxRequests : BackgroundFinish(id)
  \/ \E id \in 1..MaxRequests : TimerFires(id)

SpecPost == InitPost /\ [][NextPost]_vars

\* ------------------------------------------------------------------------
\* The summary aggregator called on its own, on the run lists the scenario
\* runners can return: a one-shot run has attempts 1..k of which only the
\* last can be the success; a sequential run has 0 to 3 steps pushed, all but
\* the last successful, and succeeds if its three steps and the merge did.
\* The failed attempts of a list have token counts, or none of them has
\* (strict mode).
\* ------------------------------------------------------------------------
MockAttempt(n, success, usage) ==
  [attemptNumber |-> n, success |-> success,
   inputTokens |-> IF success THEN <<2>> ELSE IF usage THEN <<1>> ELSE <<>>,
   outputTokens |-> IF success \/ usage THEN <<1>> ELSE <<>>,
   parsedResponse |-> IF success THEN "data" ELSE "null",
   validationErrors |-> IF success THEN 0 ELSE 1]

\* attempts 1..k, the last one a success if ok
MockAttempts(k, ok, usage) ==
  [n \in 1..k |-> MockAttempt(n, ok /\ n = k, usage)]

OneShotShapes ==
  [sequential : {FALSE}, k : 1..MaxSumAttempts, ok : BOOLEAN]

\* ks: the attempts of the steps pushed; lastOk: the last of them succeeded
SequentialShapes ==
  [sequential : {TRUE}, ks : {<<>>} \cup SeqsUpTo(1..MaxSumAttempts, 3),
   lastOk : BOOLEAN, mergeOk : BOOLEAN]

ShapeCost(shape) ==
  IF shape.sequential THEN SumOf(shape.ks) ELSE shape.k

MockRun(shape, runNumber, usage) ==
  IF shape.sequential
  THEN LET stepOk(j) == j < Len(shape.ks) \/ shape.lastOk
           success == Len(shape.ks) = 3 /\ shape.lastOk /\ shape.mergeOk
       IN [runNumber |-> runNumber, success |-> success, attempts |-> <<>>,
           steps |-> [j \in DOMAIN shape.ks |->
                        [stepNumber |-> j, success |-> stepOk(j),
                         attempts |-> MockAttempts(shape.ks[j], stepOk(j),
                                                   usage)]],
           totalDurationMs |-> 1,
           finalResponse |-> IF success THEN "merged" ELSE "null"]
  ELSE [runNumber |-> runNumber, success |-> shape.ok,
        attempts |-> MockAttempts(shape.k, shape.ok, usage),
        steps |-> <<>>, totalDurationMs |-> 1,
        finalResponse |-> IF shape.ok THEN "data" ELSE "null"]

\* attempts of a run list in total
ListCost(rs, isSequential) ==
  SumOf([i \in DOMAIN rs |-> Len(RunAttempts(rs[i], isSequential))])

\* no run list yet; it will hold one-shot runs or sequential runs
InitSummary ==
  /\ IdleSuite
  /\ IdlePost
  /\ sumSequential \in BOOLEAN
  /\ sumUsage \in BOOLEAN
  /\ sumRuns = <<>>
  /\ sumResult = <<>>

\* runs.push(runResult): the list to be summarised grows by one run
AddRun ==
  /\ sumResult = <<>>
  /\ Len(sumRuns) < (IF sumSequential THEN MaxSumSeqRuns ELSE MaxSumRuns)
  /\ \E shape \in IF sumSequential THEN SequentialShapes ELSE OneShotShapes :
       /\ ListCost(sumRuns, sumSequential) + ShapeCost(shape) <= MaxSumSlots
       /\ sumRuns' = Append(sumRuns, MockRun(shape, Len(sumRuns) + 1, sumUsage))
  /\ UNCHANGED <<sumSequential, sumUsage, sumResult>>
  /\ UNCHANGED <<suiteVars, postVars>>

\* mutant of Summarize: the runs are summarised as one-shot runs
SummarizeFlat ==
  /\ sumResult = <<>>
  /\ sumResult' = <<calculateScenarioSummary(sumRuns, FALSE)>>
  /\ UNCHANGED <<sumRuns, sumSequential, sumUsage>>
  /\ UNCHANGED <<suiteVars, postVars>>

\* summary: calculateScenarioSummary(runs, isSequential)
Summarize ==
  /\ sumResult = <<>>
  /\ sumResult' = <<calculateScenarioSummary(sumRuns, sumSequential)>>
  /\ UNCHANGED <<sumRuns, sumSequential, sumUsage>>
  /\ UNCHANGED <<suiteVars, postVars>>

NextSummary == AddRun \/ Summarize

SpecSummary == InitSummary /\ [][NextSummary]_vars

\* a timer set with setTimeout fires
\* ------------------------------------------------------------------------
\* The rolling log: onProgress under the events of one run of scenario 1
\* whose attempts all fail, with attempts enough for MaxLogEvents events
\* ------------------------------------------------------------------------
LogConfig ==
  [modelIds |-> <<"openai-gpt4o">>, scenarios |-> <<1>>, runsPerScenario |-> 1,
   maxRetries |-> (MaxLogEvents + 1) \div 2 - 1]

\* the n-th event of the run: the before-event and the 'failed' event of
\* attempt (n + 1) \div 2
EventNo(n) ==
  [status |-> IF n % 2 = 0 THEN "failed"
              ELSE IF n = 1 THEN "running" ELSE "retrying",
   m |-> 1, modelId |-> "openai-gpt4o", s |-> 1, scenario |-> 1,
   runNumber |-> 1, stepNumber |-> 0, attemptNumber |-> (n + 1) \div 2,
   errors |-> IF n % 2 = 0 THEN <<"invalid_type">> ELSE <<>>]

InitLog ==
  /\ config = LogConfig
  /\ pc = "events"
  /\ mi = 1
  /\ si = 1
  /\ runNum = 1
  /\ stepNum = 0
  /\ attempt = 1
  /\ backoff = 0
  /\ attempts = <<>>
  /\ messages = <<>>
  /\ steps = <<>>
  /\ runs = <<>>
  /\ modelResults = EmptyMap
  /\ results = EmptyMap
  /\ error = "none"
  /\ lastEvent = NoEvent
  /\ lastRunComplete = NoRunComplete
  /\ started = [k \in 0..3 |-> 0]
  /\ lastMerge = "none"
  /\ testRun = createTestRun
  /\ slept = <<>>
  /\ progress = InitialProgress(LogConfig)
  /\ received = 0
  /\ calls = <<>>
  /\ IdlePost
  /\ IdleSummary

\* onProgress is called with the next event of the run
ProgressEvent ==
  /\ pc = "events"
  /\ received < MaxLogEvents
  /\ lastEvent' = EventNo(received + 1)
  /\ progress' = onProgress(progress, lastEvent')
  /\ received' = received + 1
  /\ UNCHANGED <<config, pc, mi, si, runNum, stepNum, attempt, backoff, slept,
                 attempts, messages, steps, runs, modelResults, results, error,
                 lastRunComplete, started, lastMerge, testRun, calls>>
  /\ UNCHANGED <<postVars, pureVars>>

NextLog == ProgressEvent

SpecLog == InitLog /\ [][NextLog]_vars

\* ------------------------------------------------------------------------
\* The suite call with its model calls counted, every model call resolving
\* or rejecting and the code between two calls running on: whatever step is
\* possible is taken in the end
\* ------------------------------------------------------------------------
\* the attempts a suite call of configuration c can start at most
MaxAttemptsOf(c) ==
  SumOver([j \in DOMAIN c.scenarios |->
             IF isSequentialScenario(c.scenarios[j]) THEN 3 ELSE 1],
          DOMAIN c.scenarios)
    * Len(c.modelIds) * c.runsPerScenario * (c.maxRetries + 1)

\* the suite calls whose model calls are counted
CallConfigs == {c \in Configs : MaxAttemptsOf(c) <= MaxCallAttempts}

InitCalls ==
  /\ config \in CallConfigs
  /\ calls = <<0>>
  /\ SuiteCalled
  /\ IdlePost
  /\ IdleSummary

\* the steps of the runners and of runTestsInBackground that run on without
\* waiting for a model call (the sleep of a backoff ends by itself)
Synchronous ==
  \/ StartModel
  \/ SuiteReturns
  \/ StartScenario
  \/ ModelReturns
  \/ StartRun
  \/ ScenarioReturns
  \/ BeginAttempt
  \/ BackoffRetry
  \/ RunCompleted
  \/ RunErrored

\* the model call resolves or rejects for good: the runner leaves the call
\* (a step of AttemptReturns or AttemptThrows)
CallSettles == pc = "call" /\ pc' \in {"attempt", "run", "rejected"}

SpecCalls ==
  InitCalls /\ [][Next]_vars /\ WF_vars(Synchronous) /\ WF_pc(CallSettles)

SpecPostFair ==
  SpecPost /\ \A id \in 1..MaxRequests : WF_vars(TimerFires(id))

\* the terminal statuses runTestsInBackground sets
Terminal == {"complete", "error"}

\* C1: at most one entry of the progress table is 'running' at any time: a
\* start request handled while a run is 'running' is rejected, also when two
\* start requests interleave at their await points
SingleRunningRun == Cardinality(Running) <= 1

\* ------------------------------------------------------------------------
\* What the suite call has recorded
\* ------------------------------------------------------------------------
ConfigErrors == {"Model not found or missing API key", "Invalid scenario"}

InRunner == pc \in {"run", "attempt", "call"}

\* every RunResult pushed so far, with the scenario it belongs to
RecordedRuns ==
  UNION {UNION {{[scenario |-> s, run |-> results[m][s].runs[i]] :
                   i \in DOMAIN results[m][s].runs} :
                s \in DOMAIN results[m]} :
         m \in DOMAIN results}
  \cup UNION {{[scenario |-> s, run |-> modelResults[s].runs[i]] :
                 i \in DOMAIN modelResults[s].runs} :
              s \in DOMAIN modelResults}
  \cup (IF InRunner
        THEN {[scenario |-> Scenario, run |-> runs[i]] : i \in DOMAIN runs}
        ELSE {})

\* every attempt list recorded in a RunResult, with the success flag of the
\* one-shot run or of the step it belongs to
RecordedAttemptLists ==
  {[success |-> rr.run.success, attempts |-> rr.run.attempts] :
     rr \in {x \in RecordedRuns : ~isSequentialScenario(x.scenario)}}
  \cup UNION {{[success |-> rr.run.steps[k].success,
                attempts |-> rr.run.steps[k].attempts] :
                 k \in DOMAIN rr.run.steps} :
              rr \in {x \in RecordedRuns : isSequentialScenario(x.scenario)}}

\* the run that was completed last, while its runner is still in its run loop
JustCompleted == pc = "run" /\ runs # <<>>

IsBefore(e) == e.status \in {"running", "retrying"}

IsAfter(e) == e.status \in {"success", "failed"}

SameCoordinate(e, f) ==
  /\ e.m = f.m /\ e.modelId = f.modelId
  /\ e.s = f.s /\ e.scenario = f.scenario
  /\ e.runNumber = f.runNumber
  /\ e.stepNumber = f.stepNumber
  /\ e.attemptNumber = f.attemptNumber

Coordinate(e) == <<e.m, e.s, e.runNumber, e.stepNumber, e.attemptNumber>>

RECURSIVE LexLess(_, _)
LexLess(a, b) ==
  IF a = <<>> \/ b = <<>> THEN FALSE
  ELSE Head(a) < Head(b) \/ (Head(a) = Head(b) /\ LexLess(Tail(a), Tail(b)))

\* ------------------------------------------------------------------------
\* Claims
\* ------------------------------------------------------------------------

\* C2: no failure of a model call makes the suite call reject: a suite call
\* that rejects does so for a configuration failure only
NoModelCallFailureRejects == pc = "rejected" => error \in ConfigErrors

\* C3: in every recorded one-shot run and every recorded step the attempts
\* are numbered 1..k with k <= maxRetries+1, only the last attempt can be a
\* success, fewer than maxRetries+1 attempts are recorded only if the last one
\* succeeded, and the run (the step) succeeded iff its last attempt did; the
\* attempts recorded so far in the run in progress are numbered 1..attempt-1
\* and all failed
AttemptsBoundedAndNumbered ==
  /\ \A l \in RecordedAttemptLists :
       /\ Len(l.attempts) >= 1
       /\ Len(l.attempts) <= MaxAttempts
       /\ \A i \in DOMAIN l.attempts :
            /\ l.attempts[i].attemptNumber = i
            /\ l.attempts[i].success => i = Len(l.attempts)
       /\ Len(l.attempts) < MaxAttempts => Last(l.attempts).success
       /\ l.success = Last(l.attempts).success
  /\ pc \in {"attempt", "call"} =>
       /\ attempt <= MaxAttempts
       /\ Len(attempts) = attempt - 1
       /\ \A i \in DOMAIN attempts :
            attempts[i].attemptNumber = i /\ ~attempts[i].success

\* C3 witness: a recorded one-shot run that failed its first attempt and
\* succeeded on the second, the last one it was allowed
SucceededOnRetry ==
  \E rr \in RecordedRuns :
    /\ ~isSequentialScenario(rr.scenario)
    /\ rr.run.success
    /\ Len(rr.run.attempts) = 2
    /\ ~rr.run.attempts[1].success
    /\ MaxAttempts = 2

\* C4: in a sequential run a step makes a model call only after every step
\* before it has succeeded; a step that exhausts its attempts ends the run
\* with success=false and no later step is attempted, so only the last
\* recorded step of a run can have success=false
StepsChained ==
  /\ (pc \in {"attempt", "call"} /\ isSequentialScenario(Scenario)) =>
       /\ Len(steps) = stepNum - 1
       /\ \A k \in DOMAIN steps :
            /\ steps[k].stepNumber = k
            /\ steps[k].success
            /\ \E i \in DOMAIN steps[k].attempts : steps[k].attempts[i].success
       /\ \A k \in 1..3 : k > stepNum => started[k] = 0
  /\ \A rr \in RecordedRuns : isSequentialScenario(rr.scenario) =>
       /\ \A k \in DOMAIN rr.run.steps :
            /\ rr.run.steps[k].stepNumber = k
            /\ k < Len(rr.run.steps) => rr.run.steps[k].success
            /\ ~rr.run.steps[k].success =>
                 /\ ~rr.run.success
                 /\ Len(rr.run.steps[k].attempts) = MaxAttempts
  /\ (JustCompleted /\ isSequentialScenario(Scenario)) =>
       \A k \in 2..3 : started[k] > 0 =>
         /\ Len(Last(runs).steps) >= k - 1
         /\ Last(runs).steps[k - 1].success

\* C4 witness: a recorded sequential run whose second step exhausted its two
\* attempts after the first step had succeeded
SecondStepExhausted ==
  /\ JustCompleted
  /\ isSequentialScenario(Scenario)
  /\ Len(Last(runs).steps) = 2
  /\ ~Last(runs).steps[2].success
  /\ Len(Last(runs).steps[2].attempts) = 2
  /\ started[3] = 0

\* C5: every RunResult of a sequential scenario holds 1 to 3 StepResults and
\* every step for which a model call was made appears in it, with an
\* AttemptResult for every attempt made in that step
AttemptedStepsRecorded ==
  (JustCompleted /\ isSequentialScenario(Scenario)) =>
    /\ Len(Last(runs).steps) \in 1..3
    /\ \A k \in 1..3 : started[k] > 0 =>
         /\ k <= Len(Last(runs).steps)
         /\ Len(Last(runs).steps[k].attempts) = started[k]

\* C6: when the three steps succeed and the merged object fails validation,
\* the run is recorded with success=false and finalResponse=null, its three
\* StepResults keep success=true, the error goes no further and the run loop
\* goes on with the next run
MergeFailureIsFailedRun ==
  (JustCompleted /\ lastMerge = "failed") =>
    /\ ~Last(runs).success
    /\ Last(runs).finalResponse = "null"
    /\ Len(Last(runs).steps) = 3
    /\ \A k \in 1..3 : Last(runs).steps[k].success
    /\ lastRunComplete.runResult = Last(runs)
    /\ runNum = Last(runs).runNumber + 1
    /\ error = "none"

\* C6 witness: the merge validation of the first run has failed and the
\* second run is about to be executed
MergeFailedNextRunDue ==
  /\ JustCompleted
  /\ lastMerge = "failed"
  /\ runNum = 2
  /\ config.runsPerScenario = 2

\* a strict scenario asked of a model whose capability flag denies strict mode
Unsupported(modelId, scenario) ==
  scenario \in {2, 4} /\ ~supportsStrictMode(modelId)

\* the scenarios of the call that modelId can run
Supported(modelId) ==
  {sc \in Range(config.scenarios) : ~Unsupported(modelId, sc)}

\* C7: a strict scenario requested of a model without strict mode gets no
\* key in the result map of runModelTests, no model call, no progress event
\* and no run-complete event, and the other requested scenarios are still
\* run: the result map has a key exactly for the requested scenarios that
\* were not skipped
UnsupportedScenarioSkipped ==
  /\ lastEvent # NoEvent => ~Unsupported(lastEvent.modelId, lastEvent.scenario)
  /\ lastRunComplete # NoRunComplete =>
       ~Unsupported(lastRunComplete.modelId, lastRunComplete.scenario)
  /\ (pc \in {"run", "attempt", "call"}) => ~Unsupported(ModelId, Scenario)
  /\ \A m \in DOMAIN results :
       /\ DOMAIN results[m] = Supported(m)
       /\ \A sc \in DOMAIN results[m] :
            Len(results[m][sc].runs) = config.runsPerScenario
  /\ pc = "scenario" =>
       DOMAIN modelResults =
         {config.scenarios[j] : j \in {i \in 1..(si - 1) :
                                  ~Unsupported(ModelId, config.scenarios[i])}}

\* C7 witness: runModelTests has returned for a model without strict mode
\* that was asked for a strict scenario and for one it can run
SkippedAndRan ==
  \E m \in DOMAIN results :
    /\ ~supportsStrictMode(m)
    /\ \E sc \in Range(config.scenarios) : Unsupported(m, sc)
    /\ DOMAIN results[m] # {}

EventsInOrder ==
  [][(lastEvent' # lastEvent /\ lastEvent # NoEvent) =>
       /\ ~LexLess(Coordinate(lastEvent'), Coordinate(lastEvent))
       /\ IsBefore(lastEvent') =>
            LexLess(Coordinate(lastEvent), Coordinate(lastEvent'))]_vars

\* C9 witness: an event of the second model, after the first model's runs
SecondModelReporting ==
  /\ lastEvent.m = 2
  /\ config.modelIds[1] \in DOMAIN results
  /\ DOMAIN results[config.modelIds[1]] # {}

\* C10: every attempt whose model call is started gets one before-event
\* ('running' for attempt 1, 'retrying' after) ahead of the call and one
\* after-event ('success' or 'failed') with the same coordinate once the call
\* is over, and no before-event is followed by another event than its
\* after-event
BeforeAndAfterEventPaired ==
  [][/\ (pc # "call" /\ pc' = "call") =>
          /\ lastEvent' # lastEvent
          /\ lastEvent'.status = IF attempt' = 1 THEN "running" ELSE "retrying"
          /\ lastEvent'.runNumber = runNum' /\ lastEvent'.stepNumber = stepNum'
          /\ lastEvent'.attemptNumber = attempt'
     /\ (pc = "call" /\ pc' # "call") =>
          /\ IsAfter(lastEvent')
          /\ SameCoordinate(lastEvent, lastEvent')
     /\ (IsBefore(lastEvent) /\ lastEvent' # lastEvent) =>
          /\ IsAfter(lastEvent')
          /\ SameCoordinate(lastEvent, lastEvent')]_vars

\* C11: a scenario runner that returns has pushed exactly runsPerScenario
\* RunResults, numbered 1..runsPerScenario in order; onRunComplete is called
\* exactly when a RunResult is pushed, with that RunResult and its
\* coordinate, after the last attempt event of the run (which is then the last
\* event) and before any event of the next run; a pushed RunResult is not
\* modified afterwards, neither in the runner's list nor in the result map
RunsReturnedAndReportedOnce ==
  [][/\ (pc = "run" /\ pc' = "scenario") =>
          /\ Len(runs) = config.runsPerScenario
          /\ \A i \in DOMAIN runs : runs[i].runNumber = i
          /\ modelResults'[Scenario].runs = runs
     /\ (lastRunComplete' # lastRunComplete) <=> (Len(runs') = Len(runs) + 1)
     /\ (lastRunComplete' # lastRunComplete) =>
          /\ lastRunComplete'.runResult = Last(runs')
          /\ lastRunComplete'.runNumber = Last(runs').runNumber
          /\ lastRunComplete'.runNumber = Len(runs')
          /\ lastRunComplete'.m = mi /\ lastRunComplete'.s = si
          /\ lastRunComplete'.isSequential = isSequentialScenario(Scenario)
          /\ lastEvent'.m = mi /\ lastEvent'.s = si
          /\ lastEvent'.runNumber = lastRunComplete'.runNumber
          /\ IsAfter(lastEvent') \/ lastEvent' = lastEvent
     /\ (lastEvent' # lastEvent /\ InRunner /\ lastEvent'.runNumber > 1) =>
          /\ lastRunComplete.m = mi /\ lastRunComplete.s = si
          /\ lastRunComplete.runNumber \in
               {lastEvent'.runNumber - 1, lastEvent'.runNumber}
          /\ IsBefore(lastEvent') /\ lastEvent'.attemptNumber = 1
               /\ lastEvent'.stepNumber <= 1 =>
                 lastRunComplete.runNumber = lastEvent'.runNumber - 1
     /\ (InRunner /\ pc' \in {"run", "attempt", "call"}) =>
          \A i \in DOMAIN runs : i \in DOMAIN runs' /\ runs'[i] = runs[i]
     /\ (pc = "run" /\ pc' = "scenario") =>
          \A sc \in DOMAIN modelResults \ {Scenario} :
            modelResults'[sc] = modelResults[sc]
     /\ (pc # "suite" /\ ~(pc = "run" /\ pc' = "scenario")) =>
          modelResults' = modelResults
     /\ (pc = "scenario" /\ pc' = "suite") =>
          /\ results'[ModelId] = modelResults
          /\ \A m \in DOMAIN results \ {ModelId} : results'[m] = results[m]
     /\ ~(pc = "scenario" /\ pc' = "suite") => results' = results]_vars

\* C11 witness: a scenario runner has returned two RunResults and the last
\* run-complete event carried the second
TwoRunsReturned ==
  /\ pc = "scenario"
  /\ Len(runs) = 2
  /\ config.runsPerScenario = 2
  /\ lastRunComplete.runNumber = 2
  /\ lastRunComplete.runResult = runs[2]

\* C12: an entry of the progress table is removed only when its status is
\* terminal, never while it is 'running'; a terminal status does not change
\* any more; and every entry that reaches 'complete' or 'error' is
\* eventually removed
TerminalEntriesCollected ==
  /\ [][\A id \in DOMAIN activeRuns :
          /\ id \notin DOMAIN activeRuns' => activeRuns[id] \in Terminal
          /\ (activeRuns[id] \in Terminal /\ id \in DOMAIN activeRuns') =>
               activeRuns'[id] = activeRuns[id]]_vars
  /\ \A id \in 1..MaxRequests :
       (id \in DOMAIN activeRuns /\ activeRuns[id] \in Terminal)
         ~> (id \notin DOMAIN activeRuns)

\* C12 witness: the entry of a started run has been removed while the entry
\* of another run is still in the table
CollectedAfterTerminal ==
  \E r \in 1..MaxRequests :
    /\ requests[r] = "200"
    /\ r \notin DOMAIN activeRuns
    /\ DOMAIN activeRuns # {}

\* every ScenarioResult the state holds: in the file under construction and
\* in the result maps of runModelTests and runFullTestSuite
ScenarioResultsOf(res) ==
  UNION {{[scenario |-> sc, result |-> res[m][sc]] : sc \in DOMAIN res[m]} :
         m \in DOMAIN res}

ScenarioResults ==
  ScenarioResultsOf(testRun.results)
  \cup ScenarioResultsOf(results)
  \cup {[scenario |-> sc, result |-> modelResults[sc]] : sc \in DOMAIN modelResults}

\* C13: the summary stored in every ScenarioResult, of the file under
\* construction at every moment of the run and of the result maps returned
\* by runModelTests, is the summary of the runs stored next to it, taken as
\* sequential exactly for scenarios 3 and 4
StoredSummaryIsCurrent ==
  \A sr \in ScenarioResults :
    sr.result.summary =
      calculateScenarioSummary(sr.result.runs, isSequentialScenario(sr.scenario))

\* C13 witness: the file under construction holds two runs of a scenario, the
\* first one failed and the second one successful, with the summary of both
TwoRunsSummarised ==
  \E m \in DOMAIN testRun.results : \E sc \in DOMAIN testRun.results[m] :
    /\ Len(testRun.results[m][sc].runs) = 2
    /\ ~testRun.results[m][sc].runs[1].success
    /\ testRun.results[m][sc].runs[2].success
    /\ testRun.results[m][sc].summary.successRate = Whole(50)

\* ------------------------------------------------------------------------
\* The summary of a run list, stated from the runs
\* ------------------------------------------------------------------------
Summarised == sumResult # <<>>

TheSummary == sumResult[1]

\* the number r is the quotient n / d
IsQuotient(r, n, d) == r[2] > 0 /\ r[1] * d = n * r[2]

\* the rates of a summary at the retry depths 0..3
RateAt(summary) ==
  [d \in 0..3 |->
     CASE d = 0 -> summary.firstAttemptSuccessRate
       [] d = 1 -> summary.afterRetry1SuccessRate
       [] d = 2 -> summary.afterRetry2SuccessRate
       [] d = 3 -> summary.afterRetry3SuccessRate]

\* the one-shot runs whose successful attempt has a 0-based index <= d
OneShotWithin(d) ==
  {i \in DOMAIN sumRuns :
     \E j \in DOMAIN sumRuns[i].attempts :
       sumRuns[i].attempts[j].success /\ j - 1 <= d}

Succeeded == {i \in DOMAIN sumRuns : sumRuns[i].success}

\* the runs in the order of their attempt counts and outcomes: a positive
\* number for a run that succeeded on that attempt, 0 for a failed run
OneShotPattern ==
  [i \in DOMAIN sumRuns |->
     IF sumRuns[i].success THEN Len(sumRuns[i].attempts) ELSE 0]

\* C14: for one-shot runs the rate at each retry depth d in 0..3 is
\* 100 x (runs whose successful attempt has 0-based index <= d) / N and
\* successRate is 100 x (runs with success=true) / N; runs succeeding at
\* attempt 1, at attempt 2, failing, and succeeding at attempt 3 give
\* 75 / 25 / 50 / 75 / 75, and one run succeeding at attempt 4 gives
\* 100 / 0 / 0 / 0 / 100
OneShotRatesByAttemptIndex ==
  (Summarised /\ ~sumSequential /\ sumRuns # <<>>) =>
    /\ \A d \in 0..3 :
         IsQuotient(RateAt(TheSummary)[d],
                    100 * Cardinality(OneShotWithin(d)), Len(sumRuns))
    /\ IsQuotient(TheSummary.successRate,
                  100 * Cardinality(Succeeded), Len(sumRuns))
    /\ OneShotPattern = <<1, 2, 0, 3>> =>
         /\ TheSummary.successRate = Whole(75)
         /\ RateAt(TheSummary) =
              (0 :> Whole(25) @@ 1 :> Whole(50) @@ 2 :> Whole(75) @@ 3 :> Whole(75))
    /\ OneShotPattern = <<4>> =>
         /\ TheSummary.successRate = Whole(100)
         /\ RateAt(TheSummary) =
              (0 :> Whole(0) @@ 1 :> Whole(0) @@ 2 :> Whole(0) @@ 3 :> Whole(100))

\* C14 witness: the summary of one-shot runs that succeeded at attempt 1, at
\* attempt 2, failed, and succeeded at attempt 3
FourOneShotRunsSummarised ==
  /\ Summarised
  /\ ~sumSequential
  /\ OneShotPattern = <<1, 2, 0, 3>>
  /\ TheSummary.afterRetry1SuccessRate = Whole(50)

\* 0-based index of the successful attempt of a successful step
StepIndex(step) ==
  (CHOOSE j \in DOMAIN step.attempts : step.attempts[j].success) - 1

\* the retries of the steps of a successful sequential run
StepRetries(run) == [k \in DOMAIN run.steps |-> StepIndex(run.steps[k])]

\* the attempts the steps of each run took
StepAttempts ==
  [i \in DOMAIN sumRuns |->
     [k \in DOMAIN sumRuns[i].steps |-> Len(sumRuns[i].steps[k].attempts)]]

\* the successful runs whose steps used no more than d retries in total
TotalRetriesWithin(d) ==
  {i \in Succeeded : SumOf(StepRetries(sumRuns[i])) <= d}

\* the successful runs none of whose steps used more than d retries
EveryStepWithin(d) ==
  {i \in Succeeded :
     \A k \in DOMAIN sumRuns[i].steps : StepRetries(sumRuns[i])[k] <= d}

RatesGrowWithRetryDepth ==
  Summarised =>
    \A d \in 0..2 :
      /\ RateAt(TheSummary)[d][2] > 0
      /\ RateAt(TheSummary)[d + 1][2] > 0
      /\ RatioLeq(RateAt(TheSummary)[d], RateAt(TheSummary)[d + 1])

\* C17 witness: a summary whose rate grows from depth 0 to 1 and from 1 to 2
RatesGrowingTwice ==
  /\ Summarised
  /\ TheSummary.firstAttemptSuccessRate # TheSummary.afterRetry1SuccessRate
  /\ TheSummary.afterRetry1SuccessRate # TheSummary.afterRetry2SuccessRate

\* C18: the summary of the empty run list has all ten fields 0, for either
\* value of the sequential flag
EmptyListSummaryIsZero ==
  (Summarised /\ sumRuns = <<>>) =>
    /\ DOMAIN TheSummary =
         {"successRate", "firstAttemptSuccessRate", "afterRetry1SuccessRate",
          "afterRetry2SuccessRate", "afterRetry3SuccessRate",
          "averageDurationMs", "averageAttempts", "averageAttemptsPerSuccess",
          "averageTokensPerSuccess", "totalTokensUsed"}
    /\ \A f \in DOMAIN TheSummary \ {"totalTokensUsed"} : TheSummary[f] = <<0, 1>>
    /\ TheSummary.totalTokensUsed = 0

\* C18 witness: the empty list has been summarised as a list of sequential runs
EmptySequentialListSummarised ==
  /\ Summarised
  /\ sumRuns = <<>>
  /\ sumSequential

\* the attempts of run i: <<i, 0, j>> for attempt j of the run, <<i, k, j>>
\* for attempt j of step k
AttemptsOfRun(i) ==
  {<<i, 0, j>> : j \in DOMAIN sumRuns[i].attempts}
  \cup UNION {{<<i, k, j>> : j \in DOMAIN sumRuns[i].steps[k].attempts} :
              k \in DOMAIN sumRuns[i].steps}

AttemptsOfRuns(I) == UNION {AttemptsOfRun(i) : i \in I}

AttemptAt(p) ==
  IF p[2] = 0 THEN sumRuns[p[1]].attempts[p[3]]
  ELSE sumRuns[p[1]].steps[p[2]].attempts[p[3]]

\* inputTokens + outputTokens of the attempt at p, a missing count being 0
TokensAt(p) ==
  (IF AttemptAt(p).inputTokens = <<>> THEN 0 ELSE AttemptAt(p).inputTokens[1])
  + (IF AttemptAt(p).outputTokens = <<>> THEN 0 ELSE AttemptAt(p).outputTokens[1])

TokensOfRuns(I) ==
  SumOver([p \in AttemptsOfRuns(I) |-> TokensAt(p)], AttemptsOfRuns(I))

\* C19: totalTokensUsed is the sum of inputTokens + outputTokens over every
\* attempt of every run, failed attempts and the attempts of failed runs
\* included, over the attempts of every recorded step for sequential runs,
\* with a missing token count counted as 0
TotalTokensOverAllAttempts ==
  Summarised => TheSummary.totalTokensUsed = TokensOfRuns(DOMAIN sumRuns)

\* C19 witness: a failed sequential run whose second step exhausted two
\* attempts that carry token counts: 3 + 2 + 2 tokens
FailedStepTokensCounted ==
  /\ Summarised
  /\ sumSequential
  /\ sumUsage
  /\ Succeeded = {}
  /\ StepAttempts = <<(<<1, 2>>)>>
  /\ ~sumRuns[1].steps[2].success
  /\ TheSummary.totalTokensUsed = 7

\* C20: averageAttemptsPerSuccess and averageTokensPerSuccess are the mean
\* attempt count and the mean token total of the runs with success=true only
\* (for sequential runs the attempts of all steps), and both are 0 when no
\* run succeeded
PerSuccessMeansOverSuccessfulRuns ==
  Summarised =>
    IF Succeeded = {}
    THEN /\ TheSummary.averageAttemptsPerSuccess = <<0, 1>>
         /\ TheSummary.averageTokensPerSuccess = <<0, 1>>
    ELSE /\ IsQuotient(TheSummary.averageAttemptsPerSuccess,
                       Cardinality(AttemptsOfRuns(Succeeded)),
                       Cardinality(Succeeded))
         /\ IsQuotient(TheSummary.averageTokensPerSuccess,
                       TokensOfRuns(Succeeded), Cardinality(Succeeded))

\* C20 witness: a sequential run that succeeded with 1, 1 and 1 attempts
\* and one that failed after 2 attempts in step 1: the means are those of the
\* first run alone
MeansOfTheSuccessfulRunOnly ==
  /\ Summarised
  /\ sumSequential
  /\ sumUsage
  /\ Succeeded = {1}
  /\ StepAttempts = <<(<<1, 1, 1>>), (<<2>>)>>
  /\ TheSummary.averageAttemptsPerSuccess = Whole(3)
  /\ TheSummary.averageTokensPerSuccess = Whole(9)
  /\ TheSummary.totalTokensUsed = 13

\* ------------------------------------------------------------------------
\* The top-level summary of the file under construction, stated from its
\* results
\* ------------------------------------------------------------------------
FileEntries ==
  UNION {{<<m, sc>> : sc \in DOMAIN testRun.results[m]} :
         m \in DOMAIN testRun.results}

FileRunsOf(e) == testRun.results[e[1]][e[2]].runs

FileTotal == SumOver([e \in FileEntries |-> Len(FileRunsOf(e))], FileEntries)

FilePassed ==
  SumOver([e \in FileEntries |->
             Cardinality({i \in DOMAIN FileRunsOf(e) : FileRunsOf(e)[i].success})],
          FileEntries)

\* C21: at every moment after a run was completed and after the suite has
\* returned, the top-level summary of the file has totalTests = the number
\* of RunResults of all model/scenario entries, passed = the number of those
\* with success=true, failed = totalTests - passed, successRate =
\* 100 * passed / totalTests, and all four are 0 when there are no results
TopLevelSummaryIsCurrent ==
  /\ testRun.summary.totalTests = FileTotal
  /\ testRun.summary.passed = FilePassed
  /\ testRun.summary.failed = FileTotal - FilePassed
  /\ IF FileTotal = 0
     THEN testRun.summary.successRate = <<0, 1>>
     ELSE IsQuotient(testRun.summary.successRate, 100 * FilePassed, FileTotal)

\* C21 witness: the suite has returned with one run passed and one failed
OnePassedOneFailed ==
  /\ pc = "complete"
  /\ testRun.summary =
       [totalTests |-> 2, passed |-> 1, failed |-> 1, successRate |-> Whole(50)]

\* the attempt lists of the runs and steps recorded, and of the loop in progress
AttemptListsSoFar ==
  {l.attempts : l \in RecordedAttemptLists}
  \cup (IF pc \in {"attempt", "call"} THEN {attempts} ELSE {})

\* C22: in all four scenarios the messages sent on attempt k+1 of a run (of
\* a step) are the messages sent on attempt k followed by the raw response of
\* attempt k and the retry prompt made from it, so the raw response of every
\* attempt 1..k is among the messages of attempt k+1
MessageHistoryGrows ==
  /\ \A as \in AttemptListsSoFar : \A k \in 1..(Len(as) - 1) :
       /\ as[k + 1].prompt = as[k].prompt \o RetryContext(as[k].rawResponse)
       /\ \A j \in 1..k :
            Message("assistant", as[j].rawResponse) \in Range(as[k + 1].prompt)
  /\ (pc = "call" /\ attempts # <<>>) =>
       messages = Last(attempts).prompt \o RetryContext(Last(attempts).rawResponse)

\* ------------------------------------------------------------------------
\* Failures of the model call
\* ------------------------------------------------------------------------
\* the attempt list the last AttemptResult was pushed to
LatestAttempts ==
  IF pc = "attempt" /\ attempts # <<>> THEN attempts
  ELSE IF pc = "attempt" /\ steps # <<>> THEN Last(steps).attempts
  ELSE IF pc = "run" /\ runs # <<>> /\ Last(runs).attempts # <<>>
  THEN Last(runs).attempts
  ELSE IF pc = "run" /\ runs # <<>> /\ Last(runs).steps # <<>>
  THEN Last(Last(runs).steps).attempts
  ELSE <<>>

\* the model call fails with a transport error that is no rate-limit signal
TransportErrorOnCall ==
  \/ \E mergeOk \in BOOLEAN : AttemptReturnsOn("transport", mergeOk)
  \/ AttemptThrowsOn("transport")

\* C23: a transport error that is no rate-limit signal is not retried by
\* the backoff (the call is not made again) and becomes a failed
\* AttemptResult of the attempt, reported with the error code 'api_error';
\* it does not escape the scenario runner, in strict and in non-strict mode
TransportErrorIsFailedAttempt ==
  [][TransportErrorOnCall =>
       /\ pc' \notin {"call", "rejected"}
       /\ lastEvent'.status = "failed"
       /\ lastEvent'.errors = <<"api_error">>
       /\ Coordinate(lastEvent') = Coordinate(lastEvent)
       /\ LatestAttempts' # <<>>
       /\ Last(LatestAttempts').attemptNumber = attempt
       /\ ~Last(LatestAttempts').success]_vars

\* the model call fails with a rate-limit signal at the retry ceiling
RateLimitAtCeiling ==
  /\ backoff = BACKOFF_MAX_RETRIES
  /\ \/ \E mergeOk \in BOOLEAN : AttemptReturnsOn("ratelimit", mergeOk)
     \/ AttemptThrowsOn("ratelimit")

\* C24: a rate-limit signal at the retry ceiling propagates out of the
\* attempt executor and ends the run, in strict and in non-strict mode: no
\* AttemptResult is recorded and no after-event emitted for the attempt, and
\* the run makes no further attempt
RateLimitAtCeilingEndsRun ==
  [][RateLimitAtCeiling =>
       /\ pc' \in {"run", "rejected"}
       /\ lastEvent' = lastEvent
       /\ attempts' = <<>> \/ attempts' = attempts]_vars

\* C25: a rate-limit signal is retried inside the attempt: the call is made
\* at most 5 times, the waits before the retries are 5000, 10000, 20000 and
\* 40000 ms, a retry records no AttemptResult, emits no event and leaves the
\* attempt number as it is, and a call that succeeds after retries yields
\* exactly one AttemptResult, with the number of the attempt
RateLimitRetriedInsideAttempt ==
  [][/\ pc = "call" =>
          /\ backoff + 1 <= 5
          /\ slept = SubSeq(<<5000, 10000, 20000, 40000>>, 1, backoff)
          /\ Len(attempts) = attempt - 1
     /\ (pc = "call" /\ pc' = "call") =>
          /\ backoff' = backoff + 1
          /\ attempt' = attempt
          /\ attempts' = attempts
          /\ lastEvent' = lastEvent
          /\ <<runs', steps', runNum', stepNum'>> = <<runs, steps, runNum, stepNum>>
     /\ (backoff > 0 /\ \E mergeOk \in BOOLEAN : AttemptReturnsOn("ok", mergeOk)) =>
          /\ Len(LatestAttempts') = Len(attempts) + 1
          /\ Last(LatestAttempts').attemptNumber = attempt
          /\ Last(LatestAttempts').success
          /\ \A i \in DOMAIN attempts : LatestAttempts'[i] = attempts[i]]_vars

\* C25 witness: the second attempt of a run has made its fifth call, after
\* waits of 5, 10, 20 and 40 seconds, and is still the second attempt
FifthCallOfSecondAttempt ==
  /\ pc = "call"
  /\ attempt = 2
  /\ Len(attempts) = 1
  /\ backoff = 4
  /\ slept = <<5000, 10000, 20000, 40000>>

\* the codes of the errors a failed attempt reports
FailureCodes == {"invalid_type", "invalid_json", "api_error"}

\* C26: every recorded AttemptResult with success=true has no validation
\* error and a parsed response, and every one with success=false has at
\* least one validation error (a schema issue, 'invalid_json' or 'api_error')
\* and the parsed response null
AttemptResultWellFormed ==
  /\ \A as \in AttemptListsSoFar : \A i \in DOMAIN as :
       IF as[i].success
       THEN as[i].validationErrors = 0 /\ as[i].parsedResponse # "null"
       ELSE as[i].validationErrors >= 1 /\ as[i].parsedResponse = "null"
  /\ lastEvent.status = "success" => lastEvent.errors = <<>>
  /\ lastEvent.status = "failed" =>
       /\ lastEvent.errors # <<>>
       /\ Range(lastEvent.errors) \subseteq FailureCodes

\* C26 witness: a strict-mode run recorded with a first attempt that failed
\* with 'api_error' and a second one that succeeded
ApiErrorThenSuccess ==
  /\ JustCompleted
  /\ isStrictScenario(Scenario)
  /\ ~isSequentialScenario(Scenario)
  /\ Len(Last(runs).attempts) = 2
  /\ ~Last(runs).attempts[1].success
  /\ Last(runs).attempts[2].success
  /\ lastEvent.status = "success"

\* ------------------------------------------------------------------------
\* The live projection, stated from the events
\* ------------------------------------------------------------------------
\* a progress event is handed to onProgress: it is lastEvent'
Delivered == lastEvent' # lastEvent

\* the entry of the grid g an event belongs to
EntryIndex(g, e) ==
  CHOOSE p \in DOMAIN g.scenarios :
    /\ g.scenarios[p].modelId = e.modelId
    /\ g.scenarios[p].scenario = e.scenario
    /\ \A q \in 1..(p - 1) : g.scenarios[q].modelId # e.modelId
                              \/ g.scenarios[q].scenario # e.scenario

\* the run of an event in g, and the cells of its run (one-shot) or step
GridRun(g, e) == g.scenarios[EntryIndex(g, e)].runs[e.runNumber]

GridCells(g, e) ==
  IF isSequentialScenario(e.scenario)
  THEN GridRun(g, e).steps[e.stepNumber].attempts
  ELSE GridRun(g, e).attempts

GridCellLists ==
  UNION {UNION {{progress.scenarios[p].runs[r].attempts}
                \cup {progress.scenarios[p].runs[r].steps[k].attempts :
                        k \in DOMAIN progress.scenarios[p].runs[r].steps} :
                r \in DOMAIN progress.scenarios[p].runs} :
         p \in DOMAIN progress.scenarios}

\* C29: a 'running' event makes the cell of its attempt 'running'; a
\* 'retrying' event at attempt a > 1 makes the cell a-1 'failed' and the
\* cell a 'running'; and whenever a cell a of a run or step is 'running',
\* the cells before a are 'failed' and the cells after a are 'pending'
RunningCellIsFrontier ==
  \A cells \in GridCellLists : \A a \in DOMAIN cells :
    cells[a] = "running" =>
      \A i \in DOMAIN cells :
        /\ i < a => cells[i] = "failed"
        /\ i > a => cells[i] = "pending"

\* a before-event makes the cell of its attempt 'running', and a 'retrying'
\* event after the first attempt makes the cell before it 'failed'
BeforeEventPaints ==
  [][(Delivered /\ IsBefore(lastEvent')) =>
       /\ GridCells(progress', lastEvent')[lastEvent'.attemptNumber] = "running"
       /\ (lastEvent'.status = "retrying" /\ lastEvent'.attemptNumber > 1) =>
            GridCells(progress', lastEvent')[lastEvent'.attemptNumber - 1]
              = "failed"]_vars

\* C30: a progress event leaves every other entry of the grid (cells, final
\* status, completedRuns) and every other run of its entry as they are, and
\* within its run every other step, except that a 'failed' event in the last
\* slot of a step of a sequential run rewrites the later steps; a step of the
\* program that delivers no event leaves the grid as it is
EventPaintsOwnCoordinate ==
  [][IF Delivered
     THEN /\ \A p \in DOMAIN progress.scenarios :
               p # EntryIndex(progress, lastEvent') =>
                 progress'.scenarios[p] = progress.scenarios[p]
          /\ \A r \in 1..config.runsPerScenario :
               r # lastEvent'.runNumber =>
                 progress'.scenarios[EntryIndex(progress, lastEvent')].runs[r]
                   = progress.scenarios[EntryIndex(progress, lastEvent')].runs[r]
          /\ isSequentialScenario(lastEvent'.scenario) =>
               \A j \in 1..3 :
                 (/\ j # lastEvent'.stepNumber
                  /\ ~(/\ j > lastEvent'.stepNumber
                       /\ lastEvent'.status = "failed"
                       /\ lastEvent'.attemptNumber = config.maxRetries + 1)) =>
                   GridRun(progress', lastEvent').steps[j]
                     = GridRun(progress, lastEvent').steps[j]
     ELSE progress'.scenarios = progress.scenarios]_vars

\* C30 witness: the second run of a scenario is running while the first run
\* keeps the cells and the final status it ended with
SecondRunPaintedFirstKept ==
  /\ lastEvent.status = "running"
  /\ lastEvent.runNumber = 2
  /\ GridCells(progress, lastEvent) = <<"running">>
  /\ progress.scenarios[EntryIndex(progress, lastEvent)].runs[1].final = "failed"
  /\ progress.scenarios[EntryIndex(progress, lastEvent)].completedRuns = 1

\* C31: an entry of the grid is marked skipped exactly for a strict scenario
\* of a model without strict mode; such an entry has every cell and every
\* final status 'skipped' from the start to the end of the run and gets no
\* progress event; and when the run is complete, an entry is marked skipped
\* if and only if the final result map has no entry for its model and scenario
KnownUnsupportedStaysSkipped ==
  /\ \A p \in DOMAIN progress.scenarios :
       LET entry == progress.scenarios[p]
       IN /\ entry.isSkipped <=> Unsupported(entry.modelId, entry.scenario)
          /\ entry.isSkipped =>
               \A r \in DOMAIN entry.runs :
                 /\ entry.runs[r].final = "skipped"
                 /\ \A i \in DOMAIN entry.runs[r].attempts :
                      entry.runs[r].attempts[i] = "skipped"
                 /\ \A k \in DOMAIN entry.runs[r].steps :
                      \A i \in DOMAIN entry.runs[r].steps[k].attempts :
                        entry.runs[r].steps[k].attempts[i] = "skipped"
          /\ lastEvent # NoEvent /\ entry.isSkipped =>
               lastEvent.modelId # entry.modelId
               \/ lastEvent.scenario # entry.scenario
          /\ pc = "complete" =>
               (entry.isSkipped <=>
                  ~(/\ entry.modelId \in DOMAIN testRun.results
                    /\ entry.scenario \in DOMAIN testRun.results[entry.modelId]))

\* C31 witness: the run is complete for a model that was asked a scenario
\* it ran and a strict scenario it does not support
SkippedBesideRan ==
  /\ pc = "complete"
  /\ \E p, q \in DOMAIN progress.scenarios :
       /\ progress.scenarios[p].modelId = progress.scenarios[q].modelId
       /\ progress.scenarios[p].isSkipped
       /\ progress.scenarios[p].runs[1].final = "skipped"
       /\ ~progress.scenarios[q].isSkipped
       /\ progress.scenarios[q].runs[1].final = "failed"

\* C32: after n progress events the log holds min(n, 100) entries, never more
\* than 100, and they are the log entries of the last min(n, 100) events in
\* the order of arrival
LogIsLastHundred ==
  LET kept == IF received < LogLimit THEN received ELSE LogLimit
  IN /\ Len(progress.logEntries) <= LogLimit
     /\ Len(progress.logEntries) = kept
     /\ \A i \in 1..kept :
          progress.logEntries[i] = LogEntry(EventNo(received - kept + i))

\* C32 witness: two events more than the log holds have arrived: the log
\* starts with the request of the second attempt
TwoOldestDropped ==
  /\ received = LogLimit + 2
  /\ Len(progress.logEntries) = LogLimit
  /\ progress.logEntries[1].type = "request"
  /\ progress.logEntries[1].attemptNumber = 2
  /\ progress.logEntries[LogLimit] = LogEntry(lastEvent)

\* the request names no model and no scenario twice
NoRepeatedPair ==
  /\ Cardinality(Range(config.modelIds)) = Len(config.modelIds)
  /\ Cardinality(Range(config.scenarios)) = Len(config.scenarios)

\* C33: the TestRunFile is only extended: every RunResult recorded for a
\* model and a scenario stays where it is and as it is, so the number of
\* runs recorded for a pair never decreases, also when the result map is
\* replaced by the one the suite returns; the file is persisted only when
\* the suite call has returned, and does not change once persisted
FileOnlyExtended ==
  [][/\ \A m \in DOMAIN testRun.results :
          /\ m \in DOMAIN testRun'.results
          /\ \A sc \in DOMAIN testRun.results[m] :
               /\ sc \in DOMAIN testRun'.results[m]
               /\ Len(testRun'.results[m][sc].runs)
                    >= Len(testRun.results[m][sc].runs)
               /\ \A i \in DOMAIN testRun.results[m][sc].runs :
                    testRun'.results[m][sc].runs[i]
                      = testRun.results[m][sc].runs[i]
     /\ (pc' = "complete" /\ pc # "complete") => pc = "returned"
     /\ pc = "complete" => testRun' = testRun]_vars

\* C34: when the completion of a run is reported to onRunComplete, the final
\* status of that run in the grid is 'success' if and only if the RunResult
\* is a success, and 'failed' if and only if it is not, for one-shot and for
\* sequential runs, a failed merge validation included
FinalAgreesWithRunResult ==
  [][(lastRunComplete' # lastRunComplete) =>
       /\ GridRun(progress', lastRunComplete').final = "success"
            <=> lastRunComplete'.runResult.success
       /\ GridRun(progress', lastRunComplete').final = "failed"
            <=> ~lastRunComplete'.runResult.success]_vars

\* C35: when the status of the run is 'complete' the grid is resolved: no
\* cell is 'pending' or 'running', every run has a final status of
\* 'success', 'failed' or 'skipped', every scenario has completedRuns =
\* totalRuns, and completedScenarios = totalScenarios
GridResolvedAtComplete ==
  pc = "complete" =>
    /\ \A cells \in GridCellLists : \A i \in DOMAIN cells :
         cells[i] \notin {"pending", "running"}
    /\ \A p \in DOMAIN progress.scenarios :
         /\ \A r \in DOMAIN progress.scenarios[p].runs :
              progress.scenarios[p].runs[r].final
                \in {"success", "failed", "skipped"}
         /\ progress.scenarios[p].completedRuns = progress.scenarios[p].totalRuns
    /\ progress.completedScenarios = progress.totalScenarios

\* C36: in every state of the live projection the completedRuns of a
\* scenario is the number of its runs whose final status is not 'pending'
\* (one increment per run, at the event that sets the final status) and is
\* at most totalRuns, and completedScenarios is at most totalScenarios
CompletedRunsCounted ==
  /\ \A p \in DOMAIN progress.scenarios :
       /\ progress.scenarios[p].completedRuns =
            Cardinality({r \in DOMAIN progress.scenarios[p].runs :
                           progress.scenarios[p].runs[r].final # "pending"})
       /\ progress.scenarios[p].completedRuns <= progress.scenarios[p].totalRuns
  /\ progress.completedScenarios <= progress.totalScenarios

\* the bound of C37 on the model calls of a suite call
CallBound ==
  SumOver([x \in (DOMAIN config.modelIds) \X (DOMAIN config.scenarios) |->
             config.runsPerScenario
               * (IF isSequentialScenario(config.scenarios[x[2]]) THEN 3 ELSE 1)
               * (config.maxRetries + 1) * (BACKOFF_MAX_RETRIES + 1)],
          (DOMAIN config.modelIds) \X (DOMAIN config.scenarios))

\* the number of model calls never exceeds the bound
CallsBounded == calls[1] <= CallBound

\* C37: every model call resolving or rejecting, a started run leaves the
\* status 'running' in the end, for 'complete' or 'error'; and the number
\* of model calls of the suite never exceeds models x scenarios x
\* runsPerScenario x (3 for a sequential scenario, 1 otherwise) x
\* (maxRetries + 1) x 5
RunEndsWithinCallBound ==
  /\ <>(pc \in Terminal)
  /\ []CallsBounded

\* C37 witness: a run is complete whose model calls are as many as the
\* bound allows, more than one attempt having called five times
CompleteAtCallBound ==
  /\ pc = "complete"
  /\ calls[1] = CallBound
  /\ config.maxRetries >= 1

====
